---- MODULE Spec2Model ----
(***************************************************************************)
(* State-machine model of linbo-docker:                                    *)
(*   - the changelog / delta feed of lmn-authority-api                     *)
(*     (lmn_authority/services/delta_feed.py), and                         *)
(*   - the DC worker's stream consumer and provisioning batcher            *)
(*     (dc-worker/macct-worker.py),                                        *)
(*   - the file watcher of lmn-authority-api                               *)
(*     (lmn_authority/services/watcher.py), which writes to the changelog, *)
(*   - the middleware and the DHCP export of lmn-authority-api             *)
(*     (lmn_authority/middleware, lmn_authority/routers/dhcp.py).          *)
(* Each subsystem has its own specifications.                              *)
(***************************************************************************)
EXTENDS Integers, Sequences, FiniteSets, TLC

(***************************************************************************)
(* Bounds of the model.                                                    *)
(***************************************************************************)
\* rows the changelog may ever receive (AUTOINCREMENT ids 1..MaxRows)
MaxRows == 3
\* the wall clock runs over 0..MaxTime (whole seconds)
MaxTime == 1
\* job messages that arrive on the stream
MaxMsgs == 2
\* XACK calls of the main loop that raise, per worker
MaxAckErrors == 2
\* restarts of the authority API
MaxRestarts == 1
\* the monotonic clock of the watcher runs over 0..MaxMono (whole seconds)
MaxMono == 6
\* file events the watched directories produce
MaxEvents == 2
\* HTTP requests the authority API receives
MaxRequests == 4
\* requests in the model of the auth middleware
MaxAuthRequests == 2
\* the clocks of the API are read in ticks: this many to the second
TicksPerSecond == 2
\* the configured requests per minute and token (rate_limit_rpm)
rate_limit_rpm == 2
\* seconds of the worker's clock that pass in one step of WorkerTick
TickSeconds == 150

VARIABLES
    \* ---- delta feed (DeltaFeedService) ----
    changelog,      \* the changelog table: a set of rows
    nextId,         \* SQLite AUTOINCREMENT: the id the next INSERT gets
    sequence,       \* DeltaFeedService._sequence
    now,            \* int(time.time())
    gc,             \* the running get_changes call: its position and locals
    resp,           \* the last DeltaResponse returned
    clientCursor,   \* the nextCursor the syncing client holds
    delivered,      \* ids of the changes the client has received
    allChanges,     \* ids of every change ever recorded
    compactPc,      \* the running compact call: <<>> when none, else <<max_entries>>
    everStored,     \* id and cursor pair of every row ever inserted into the changelog
    boot,           \* restarts so far and the sequence restored by the last start
    compacted,      \* a compaction has deleted rows since the last response
    \* ---- DC worker (macct-worker.py) ----
    msgs,           \* the job messages that will arrive: id -> fields and operation
    arrived,        \* how many of them were added to the stream (XADD)
    stream,         \* ids added and not yet delivered to a consumer
    pel,            \* the group's pending-entries list: delivered, not ACKed
    flock,          \* the processes holding the flock on the lock file
    masterFile,     \* devices.csv
    deltaFile,      \* linbo-docker.devices.csv
    status,         \* the status last reported for each operation
    xacks,          \* how often each message id was passed to XACK
    wk,             \* each worker process: its position and locals
    included,       \* messages taken into a batch: triggers and drained jobs
    conflictFailed, \* messages whose job the conflict check marked failed
    committed,      \* messages whose job was in the batch when it wrote the files
    lastCommit,     \* the last master write: content before, after, batch hosts
    tmpFile,        \* devices.csv.tmp
    result,         \* the keys of the result last reported for each operation
    ops,            \* the operations API: attempt reported, retry requested, runs
    dlq,            \* the dead-letter stream linbo:jobs:dlq: ids added to it
    idle,           \* pending entries: ticks since the last delivery of each id
    \* ---- file watcher (WatcherService) and the adapters ----
    mono,           \* time.monotonic(), in whole seconds
    fs,             \* the watched files: path -> state on disk and revision
    events,         \* the changes awatch has yet to yield: (change, path)
    nEvents,        \* file events produced so far
    watcher,        \* the watcher task: running, position and locals
    cooldowns,      \* WatcherService._cooldowns: path -> cooldown_until
    loaded,         \* the revision each adapter holds of each file
    devices,        \* DevicesAdapter: _hosts, _last_modified, a load under way
    configs,        \* StartConfAdapter._configs: the config ids it serves
    \* ---- middleware and routers of the authority API ----
    clock,          \* time.monotonic() and the wall clock, in ticks
    settings,       \* Settings: tokens, networks, trust_proxy, rpm
    windows,        \* RateLimitMiddleware._windows: token -> timestamps
    http            \* requests so far, the last two exchanges, admissions

workerVars == <<msgs, arrived, stream, pel, flock, masterFile, deltaFile, status,
                xacks, wk, included, conflictFailed, committed, lastCommit,
                tmpFile, result, ops, dlq, idle>>

feedVars == <<changelog, nextId, sequence, now, gc, resp, clientCursor,
              delivered, allChanges, compactPc, everStored, boot, compacted>>

watcherVars == <<mono, fs, events, nEvents, watcher, cooldowns, loaded, devices,
                 configs>>

httpVars == <<clock, settings, windows, http>>

apiVars == <<watcherVars, httpVars>>

vars == <<feedVars, workerVars, apiVars>>

(***************************************************************************)
(* Delta feed: data                                                        *)
(***************************************************************************)
\* the (entity_type, entity_id, action) triples record_change is called with:
\* the watcher's four upserts and the deletions of the two entity types that
\* get_changes lists as deleted
RecordInputs ==
    {<<"host", "all", "upsert">>, <<"dhcp", "all", "upsert">>,
     <<"startconf", "win10", "upsert">>, <<"config", "win10", "upsert">>,
     <<"host", "all", "delete">>, <<"startconf", "win10", "delete">>}

\* the (max_age, max_entries) pairs compact is called with; the age is in
\* clock ticks
CompactInputs == {<<0, 1>>, <<1, 0>>, <<1, 1>>}

\* A cursor on the wire is "<ts>:<seq>".  It is modelled by the list of its
\* ":"-separated numeric fields: <<>> is the empty string, <<ts, seq>> a
\* well-formed cursor, any other length is what split(":") rejects.
EmptyCursor == <<>>

_make_cursor(ts, seq) == <<ts, seq>>

\* since.split(":") with exactly two integer fields
CursorParses(since) == Len(since) = 2

\* a WHERE clause that also takes the row of the cursor itself
RowAtOrAfter(r, ts, seq) ==
    (r.cursor_ts > ts) \/ (r.cursor_ts = ts /\ r.cursor_seq >= seq)

\* (cursor_ts > ?) OR (cursor_ts = ? AND cursor_seq > ?)
RowAfter(r, ts, seq) ==
    (r.cursor_ts > ts) \/ (r.cursor_ts = ts /\ r.cursor_seq > seq)

RowLess(a, b) ==
    (a.cursor_ts < b.cursor_ts)
    \/ (a.cursor_ts = b.cursor_ts /\ a.cursor_seq < b.cursor_seq)
    \/ (a.cursor_ts = b.cursor_ts /\ a.cursor_seq = b.cursor_seq /\ a.id < b.id)

\* ORDER BY cursor_ts, cursor_seq
RECURSIVE OrderByCursor(_)
OrderByCursor(S) ==
    IF S = {} THEN <<>>
    ELSE LET m == CHOOSE r \in S : \A o \in S : o = r \/ RowLess(r, o)
         IN  <<m>> \o OrderByCursor(S \ {m})

\* SELECT ... ORDER BY id DESC LIMIT 1 (on a non-empty table)
LastRowById(T) == CHOOSE r \in T : \A o \in T : o.id <= r.id

NewRow(ts, seq, etype, eid, act) ==
    [id |-> nextId, cursor_ts |-> ts, cursor_seq |-> seq,
     entity_type |-> etype, entity_id |-> eid, action |-> act]

\* SELECT 1 FROM changelog WHERE cursor_ts = ? AND cursor_seq = ?
_is_valid_cursor(ts, seq) ==
    \E r \in changelog : r.cursor_ts = ts /\ r.cursor_seq = seq

\* the incremental SELECT of get_changes
IncrementalQuery(ts, seq) ==
    OrderByCursor({r \in changelog : RowAfter(r, ts, seq)})

IdsOf(rows) == {rows[i].id : i \in 1..Len(rows)}

(***************************************************************************)
(* Delta feed: operations.  aiosqlite runs the statements of one           *)
(* connection in the order they were submitted, and a coroutine runs       *)
(* without interruption up to the statement it submits, so each action is  *)
(* the code from one await to the next together with the statement it      *)
(* submits.                                                                *)
(***************************************************************************)

\* no get_changes call is running
GcIdle == [pc |-> "idle", since |-> EmptyCursor, rows |-> <<>>, full |-> FALSE,
           cover |-> {}, probe |-> FALSE]

\* time passes
Tick ==
    /\ UNCHANGED <<workerVars, apiVars>>
    /\ now < MaxTime
    /\ now' = now + 1
    /\ UNCHANGED <<changelog, nextId, sequence, gc, resp, clientCursor, delivered,
                   allChanges, compactPc, everStored, boot, compacted>>

\* what is remembered of a row once inserted: its id and its cursor pair
Stored(id, ts, seq) == [id |-> id, cursor_ts |-> ts, cursor_seq |-> seq]

\* DeltaFeedService.record_change
record_change(etype, eid, act) ==
    /\ nextId <= MaxRows
    /\ sequence' = sequence + 1
    /\ changelog' = changelog \cup {NewRow(now, sequence + 1, etype, eid, act)}
    /\ everStored' = everStored \cup {Stored(nextId, now, sequence + 1)}
    /\ nextId' = nextId + 1
    /\ allChanges' = allChanges \cup {nextId}
    /\ UNCHANGED <<now, gc, resp, clientCursor, delivered, compactPc, boot, compacted>>

\* record_change called on the service alone, by any caller
change_recorded(etype, eid, act) ==
    /\ UNCHANGED <<workerVars, apiVars>>
    /\ record_change(etype, eid, act)

\* the entity_id of the rows of `rows` with entity_type t that are deletions
\* (deleted) or are not (~deleted), in the order of the rows
EntityIds(rows, t, deleted) ==
    LET Test(r) == r.entity_type = t /\ ((r.action = "delete") = deleted)
        picked == SelectSeq(rows, Test)
    IN  [i \in 1..Len(picked) |-> picked[i].entity_id]

\* get_changes, the loop over the fetched rows and the DeltaResponse
IncrementalResponse(since, cursor, rows) ==
    [since |-> since, error |-> "", full |-> FALSE, rows |-> rows,
     nextCursor |-> cursor,
     hostsChanged |-> EntityIds(rows, "host", FALSE),
     startConfsChanged |-> EntityIds(rows, "startconf", FALSE),
     configsChanged |-> EntityIds(rows, "config", FALSE),
     dhcpChanged |-> \E i \in 1..Len(rows) :
                         /\ rows[i].action # "delete"
                         /\ rows[i].entity_type \in {"host", "dhcp"},
     deletedHosts |-> EntityIds(rows, "host", TRUE),
     deletedStartConfs |-> EntityIds(rows, "startconf", TRUE)]

\* main._entity_provider: the MACs and start.conf ids the adapters hold
_entity_provider ==
    [host_macs |-> <<"AA:BB:CC:DD:EE:01">>, startconf_ids |-> <<"win10">>,
     config_ids |-> <<"win10">>]

\* the DeltaResponse of _full_snapshot
SnapshotResponse(since, cursor) ==
    [since |-> since, error |-> "", full |-> TRUE, rows |-> <<>>,
     nextCursor |-> cursor,
     hostsChanged |-> _entity_provider.host_macs,
     startConfsChanged |-> _entity_provider.startconf_ids,
     configsChanged |-> _entity_provider.config_ids,
     dhcpChanged |-> TRUE,
     deletedHosts |-> <<>>,
     deletedStartConfs |-> <<>>]

\* an exception leaves get_changes: there is no DeltaResponse
ErrorResponse(since, error) ==
    [since |-> since, error |-> error, full |-> FALSE, rows |-> <<>>,
     nextCursor |-> EmptyCursor, hostsChanged |-> <<>>, startConfsChanged |-> <<>>,
     configsChanged |-> <<>>, dhcpChanged |-> FALSE, deletedHosts |-> <<>>,
     deletedStartConfs |-> <<>>]

\* a DeltaResponse leaves get_changes; the syncing client stores nextCursor
\* and takes in what the response lists, another caller (probe) does not
Respond(since, cursor, rows, full, cover, probe) ==
    /\ resp' = IF full THEN SnapshotResponse(since, cursor)
               ELSE IncrementalResponse(since, cursor, rows)
    /\ clientCursor' = IF probe THEN clientCursor ELSE cursor
    /\ delivered' = IF probe THEN delivered
                    ELSE delivered \cup (IF full THEN cover
                                         ELSE IdsOf(rows) \cap allChanges)
    /\ compacted' = FALSE
    /\ gc' = GcIdle

\* _full_snapshot up to the SELECT of _latest_cursor: the entity provider is
\* read and the SELECT submitted without an await in between
_full_snapshot(since, probe) ==
    IF changelog # {}
    THEN LET r == LastRowById(changelog)
         IN  Respond(since, _make_cursor(r.cursor_ts, r.cursor_seq), <<>>, TRUE,
                     allChanges, probe)
    ELSE /\ gc' = [pc |-> "synthetic", since |-> since, rows |-> <<>>,
                   full |-> TRUE, cover |-> allChanges, probe |-> probe]
         /\ UNCHANGED <<resp, clientCursor, delivered, compacted>>

\* the largest value an INTEGER of SQLite holds (2^63 - 1), scaled to the
\* model: above every timestamp and sequence number the log can hold
SqliteIntegerMax == MaxTime + MaxRows + 2

\* binding the parameter v to a statement raises OverflowError
BindRaises(v) == v > SqliteIntegerMax

\* cursors a caller can make up: malformed (one field), well-formed but
\* never recorded, well-formed with a timestamp beyond the INTEGER range
FabricatedCursors ==
    {<<0>>, <<MaxTime + 1, 1>>, <<SqliteIntegerMax + 1, 1>>}

\* get_changes(since), from its entry to its first await; probe tells the
\* syncing client's call from the call of another caller
get_changes_begin(since, probe) ==
    /\ UNCHANGED <<workerVars, apiVars>>
    /\ gc.pc = "idle"
    /\ IF since = EmptyCursor \/ ~CursorParses(since)
       THEN _full_snapshot(since, probe)
       ELSE IF BindRaises(since[1]) \/ BindRaises(since[2])
       THEN /\ resp' = ErrorResponse(since, "OverflowError")
            /\ UNCHANGED <<gc, clientCursor, delivered, compacted>>
       ELSE /\ gc' = [gc EXCEPT !.pc = IF _is_valid_cursor(since[1], since[2])
                                       THEN "valid" ELSE "stale",
                                !.since = since, !.probe = probe]
            /\ UNCHANGED <<resp, clientCursor, delivered, compacted>>
    /\ UNCHANGED <<changelog, nextId, sequence, now, allChanges, compactPc,
                   everStored, boot>>

\* get_changes after _is_valid_cursor returned
get_changes_query ==
    /\ UNCHANGED <<workerVars, apiVars>>
    /\ gc.pc \in {"valid", "stale"}
    /\ IF gc.pc = "stale"
       THEN _full_snapshot(gc.since, gc.probe)
       ELSE /\ gc' = [gc EXCEPT !.pc = "queried",
                                !.rows = IncrementalQuery(gc.since[1], gc.since[2])]
            /\ UNCHANGED <<resp, clientCursor, delivered, compacted>>
    /\ UNCHANGED <<changelog, nextId, sequence, now, allChanges, compactPc,
                   everStored, boot>>

\* get_changes after the rows were fetched: next_cursor = _latest_cursor()
_latest_cursor ==
    /\ UNCHANGED <<workerVars, apiVars>>
    /\ gc.pc = "queried"
    /\ IF changelog # {}
       THEN LET r == LastRowById(changelog)
            IN  Respond(gc.since, _make_cursor(r.cursor_ts, r.cursor_seq), gc.rows,
                        FALSE, {}, gc.probe)
       ELSE /\ gc' = [gc EXCEPT !.pc = "synthetic"]
            /\ UNCHANGED <<resp, clientCursor, delivered, compacted>>
    /\ UNCHANGED <<changelog, nextId, sequence, now, allChanges, compactPc,
                   everStored, boot>>

\* a synthetic cursor that is returned without being recorded
SyntheticNotRecorded(ts, seq) == {}

\* the row _create_synthetic_cursor inserts for the cursor it returns
SyntheticRow(ts, seq) == {NewRow(ts, seq, "_synthetic", "_snapshot", "snapshot")}

\* _latest_cursor found no row: _create_synthetic_cursor
_create_synthetic_cursor ==
    /\ UNCHANGED <<workerVars, apiVars>>
    /\ gc.pc = "synthetic"
    /\ nextId <= MaxRows
    /\ sequence' = sequence + 1
    /\ changelog' = changelog \cup SyntheticRow(now, sequence + 1)
    /\ everStored' = everStored \cup
           {Stored(r.id, r.cursor_ts, r.cursor_seq) : r \in SyntheticRow(now, sequence + 1)}
    /\ nextId' = nextId + 1
    /\ Respond(gc.since, _make_cursor(now, sequence + 1), gc.rows, gc.full, gc.cover,
               gc.probe)
    /\ UNCHANGED <<now, allChanges, compactPc, boot>>

\* compact, first DELETE: rows older than the cutoff (age in clock ticks)
compact_by_age(max_age, max_entries) ==
    /\ UNCHANGED <<workerVars, apiVars>>
    /\ compactPc = <<>>
    /\ changelog' = {r \in changelog : ~(r.cursor_ts < now - max_age)}
    /\ compactPc' = <<max_entries>>
    /\ compacted' = (compacted \/ changelog' # changelog)
    /\ UNCHANGED <<nextId, sequence, now, gc, resp, clientCursor, delivered, allChanges,
                   everStored, boot>>

\* compact, second DELETE: all but the newest max_entries rows
compact_by_count ==
    /\ UNCHANGED <<workerVars, apiVars>>
    /\ compactPc # <<>>
    /\ changelog' = {r \in changelog :
                        Cardinality({o \in changelog : o.id > r.id}) < compactPc[1]}
    /\ compactPc' = <<>>
    /\ compacted' = (compacted \/ changelog' # changelog)
    /\ UNCHANGED <<nextId, sequence, now, gc, resp, clientCursor, delivered, allChanges,
                   everStored, boot>>

\* a start that restores nothing
SequenceNotRestored(T) == 0

\* start: SELECT cursor_seq FROM changelog ORDER BY id DESC LIMIT 1, on
\* top of the 0 that __init__ sets
RestoredSequence(T) == IF T = {} THEN 0 ELSE LastRowById(T).cursor_seq

\* the service is stopped and a new DeltaFeedService is started on the same
\* database file; no call is running across the restart
restart ==
    /\ UNCHANGED <<workerVars, apiVars>>
    /\ boot.n < MaxRestarts
    /\ gc.pc = "idle"
    /\ compactPc = <<>>
    /\ sequence' = RestoredSequence(changelog)
    /\ boot' = [n |-> boot.n + 1, seq |-> sequence']
    /\ UNCHANGED <<changelog, nextId, now, gc, resp, clientCursor, delivered,
                   allChanges, compactPc, everStored, compacted>>

InitFeed ==
    /\ changelog = {}
    /\ nextId = 1
    /\ sequence = 0
    /\ now = 0
    /\ gc = GcIdle
    /\ resp = ErrorResponse(EmptyCursor, "")
    /\ clientCursor = EmptyCursor
    /\ delivered = {}
    /\ allChanges = {}
    /\ compactPc = <<>>
    /\ everStored = {}
    /\ boot = [n |-> 0, seq |-> 0]
    /\ compacted = FALSE

\* the syncing client, the watcher and compaction
NextFeed ==
    \/ Tick
    \/ \E c \in RecordInputs : change_recorded(c[1], c[2], c[3])
    \/ get_changes_begin(clientCursor, FALSE)
    \/ get_changes_query
    \/ _latest_cursor
    \/ _create_synthetic_cursor
    \/ \E c \in CompactInputs : compact_by_age(c[1], c[2])
    \/ compact_by_count

\* the service across restarts: the watcher's host change, the client,
\* compaction and restart
NextRestart ==
    \/ Tick
    \/ change_recorded("host", "all", "upsert")
    \/ get_changes_begin(clientCursor, FALSE)
    \/ get_changes_query
    \/ _latest_cursor
    \/ _create_synthetic_cursor
    \/ \E c \in CompactInputs : compact_by_age(c[1], c[2])
    \/ compact_by_count
    \/ restart

\* get_changes called with any cursor: the client's and made-up ones
NextProbe ==
    \/ Tick
    \/ change_recorded("host", "all", "upsert")
    \/ get_changes_begin(clientCursor, FALSE)
    \/ \E since \in FabricatedCursors : get_changes_begin(since, TRUE)
    \/ get_changes_query
    \/ _latest_cursor
    \/ _create_synthetic_cursor
    \/ compact_by_age(1, 1)
    \/ compact_by_count


(***************************************************************************)
(* DC worker: data                                                         *)
(***************************************************************************)

\* str.lower() / str.upper() on the strings of the model
Lower(s) == CASE s = "H1" -> "h1" [] s = "H3" -> "h3" [] OTHER -> s
Upper(s) == CASE s = "aa" -> "AA" [] s = "bb" -> "BB" [] OTHER -> s

\* ProvisionProcessor.DELTA_HEADER; a line is the list of its ";"-separated
\* fields after strip(), so a comment or a blank line is a one-field line
DELTA_HEADER == <<"# managed-by: linbo-docker">>

\* not stripped or stripped.startswith('#')
IsCommentOrBlank(line) ==
    Len(line) = 1 /\ line[1] \in {"", "# managed-by: linbo-docker", "# rooms"}

\* ProvisionProcessor._validate_hostname: non-empty, at most 15 characters,
\* ^[a-zA-Z0-9][a-zA-Z0-9-]*$
_validate_hostname(hostname) ==
    hostname \in {"h1", "H1", "h2", "h3", "H3", "h4"}

\* ProvisionProcessor._line_matches_host
_line_matches_host(line, hostname) ==
    /\ ~IsCommentOrBlank(line)
    /\ Len(line) >= 2
    /\ Lower(line[2]) = Lower(hostname)

\* ProvisionProcessor._format_csv_line (the five fields it joins)
_format_csv_line(options) ==
    << options.csvCol0,
       options.hostname,
       IF options.configName = "" THEN "nopxe" ELSE options.configName,
       Upper(options.mac),
       IF options.ip = "" THEN "DHCP" ELSE options.ip >>

\* ';'.join in _format_csv_line raises TypeError on a non-string field
FormatRaises(options) == options.csvCol0 = "<int>"

\* ProvisionProcessor._apply_delta, the delta lines it returns
_apply_delta(delta_lines, action, options) ==
    LET hostname == options.hostname
        old      == options.oldHostname
        NotHost(l) == ~_line_matches_host(l, hostname)
        NotOld(l)  == ~_line_matches_host(l, old)
        renamed  == action = "update" /\ old # "" /\ Lower(old) # Lower(hostname)
        base     == IF renamed THEN SelectSeq(delta_lines, NotOld) ELSE delta_lines
        csv_line == _format_csv_line(options)
        found    == \E i \in 1..Len(base) : _line_matches_host(base[i], hostname)
        replaced == [i \in 1..Len(base) |->
                        IF _line_matches_host(base[i], hostname) THEN csv_line
                        ELSE base[i]]
    IN  IF action = "delete" THEN SelectSeq(delta_lines, NotHost)
        ELSE IF found THEN replaced ELSE Append(base, csv_line)

\* ProvisionProcessor._apply_delta, what it adds to self._deleted_hosts
\* (added before _format_csv_line is reached, so also when that raises)
DeletedBy(action, options) ==
    IF action = "delete" THEN {Lower(options.hostname)}
    ELSE IF action = "update" /\ options.oldHostname # ""
            /\ Lower(options.oldHostname) # Lower(options.hostname)
         THEN {Lower(options.oldHostname)}
         ELSE {}

\* _merge: delta_map, hostname -> fields of the last delta row for it
DeltaRowFor(delta_lines, host) ==
    LET idx == {i \in 1..Len(delta_lines) :
                   /\ ~IsCommentOrBlank(delta_lines[i])
                   /\ Len(delta_lines[i]) >= 2
                   /\ Lower(delta_lines[i][2]) = host}
    IN  IF idx = {} THEN <<>>
        ELSE delta_lines[CHOOSE i \in idx : \A j \in idx : j <= i]

\* a line _merge treats as a host row
IsHostRow(line) == ~IsCommentOrBlank(line) /\ Len(line) >= 2

Max(a, b) == IF a >= b THEN a ELSE b
Min(a, b) == IF a <= b THEN a ELSE b

RECURSIVE MasterCols(_)
MasterCols(master_lines) ==
    IF master_lines = <<>> THEN 5
    ELSE LET l == Head(master_lines)
         IN  Max(IF IsCommentOrBlank(l) THEN 0 ELSE Len(l),
                 MasterCols(Tail(master_lines)))

\* _merge: PATCH, cols 0-4 from delta, cols 5+ from master
Patch(parts, delta_parts) ==
    LET n == Min(5, Len(delta_parts))
    IN  [i \in 1..Max(Len(parts), n) |->
            IF i <= n THEN delta_parts[i] ELSE parts[i]]

\* _merge: the walk over the master rows
RECURSIVE MergeMaster(_, _, _)
MergeMaster(master_lines, delta_lines, deleted) ==
    IF master_lines = <<>> THEN <<>>
    ELSE LET line == Head(master_lines)
             rest == MergeMaster(Tail(master_lines), delta_lines, deleted)
             host == Lower(line[2])
         IN  IF ~IsHostRow(line) THEN <<line>> \o rest
             ELSE IF host \in deleted THEN rest
             ELSE IF DeltaRowFor(delta_lines, host) # <<>>
                  THEN <<Patch(line, DeltaRowFor(delta_lines, host))>> \o rest
                  ELSE <<line>> \o rest

\* _merge: the delta rows appended, in the order of their first appearance
RECURSIVE MergeNew(_, _, _, _, _)
MergeNew(delta_lines, i, seen, deleted, cols) ==
    IF i > Len(delta_lines) THEN <<>>
    ELSE LET l == delta_lines[i]
             host == Lower(l[2])
         IN  IF IsHostRow(l) /\ host \notin seen /\ host \notin deleted
             THEN LET parts == DeltaRowFor(delta_lines, host)
                      padded == parts \o [k \in 1..Max(0, cols - Len(parts)) |-> ""]
                  IN  <<padded>> \o MergeNew(delta_lines, i + 1, seen \cup {host},
                                             deleted, cols)
             ELSE MergeNew(delta_lines, i + 1, seen, deleted, cols)

\* a merge that takes no master row for seen
HostsInNone(lines) == {}

\* _merge: seen, the hostnames of the master rows
HostsIn(lines) == {Lower(lines[i][2]) : i \in {k \in 1..Len(lines) : IsHostRow(lines[k])}}

\* ProvisionProcessor._merge
_merge(master_lines, delta_lines, deleted) ==
    MergeMaster(master_lines, delta_lines, deleted)
    \o MergeNew(delta_lines, 1, HostsIn(master_lines), deleted, MasterCols(master_lines))

\* ProvisionProcessor._check_conflicts: TRUE when it returns an error string
_check_conflicts(action, options, merged_lines) ==
    /\ action # "delete"
    /\ \E i \in 1..Len(merged_lines) :
          LET parts == merged_lines[i]
          IN  /\ ~IsCommentOrBlank(parts)
              /\ Len(parts) >= 5
              /\ Lower(parts[2]) # Lower(options.hostname)
              /\ \/ (Upper(options.mac) # "" /\ Upper(parts[4]) = Upper(options.mac))
                 \/ (options.ip # "" /\ options.ip # "DHCP" /\ parts[5] = options.ip
                     /\ parts[5] # "DHCP")

(***************************************************************************)
(* DC worker: job messages                                                 *)
(***************************************************************************)
Workers == {"w1", "w2"}

\* Config.batch_size, Config.provision_batch_size, Config.max_retries
batch_size == 10
provision_batch_size == 50
max_retries == 3
\* Config.min_idle_time, in milliseconds
min_idle_time == 300000

Opt(action, hostname, oldHostname, mac, ip, dryRun, csvCol0) ==
    [action |-> action, hostname |-> hostname, oldHostname |-> oldHostname,
     csvCol0 |-> csvCol0, configName |-> "", mac |-> mac, ip |-> ip,
     dryRun |-> dryRun]

\* a stream message (type, school, attempt) with the operation the
\* operations API holds for it: opExists is whether get_operation finds it,
\* options is its options object
Job(type, school, opExists, options) ==
    [type |-> type, school |-> school, attempt |-> 0, opExists |-> opExists,
     options |-> options]

JobCreateH2   == Job("provision_host", "default-school", TRUE,
                     Opt("create", "h2", "", "bb", "", FALSE, "r1"))
\* same MAC as the master's row of h1
JobCreateH3   == Job("provision_host", "default-school", TRUE,
                     Opt("create", "h3", "", "aa", "", FALSE, "r1"))
\* the host of JobDeleteH1, created again
JobCreateH1   == Job("provision_host", "default-school", TRUE,
                     Opt("create", "h1", "", "aa", "", FALSE, "r1"))
JobDeleteH1   == Job("provision_host", "default-school", TRUE,
                     Opt("delete", "h1", "", "", "", FALSE, ""))
JobRenameH1   == Job("provision_host", "default-school", TRUE,
                     Opt("update", "h4", "H1", "aa", "10.0.0.4", FALSE, "r1"))
JobDryRun     == Job("provision_host", "default-school", TRUE,
                     Opt("create", "h2", "", "bb", "", TRUE, "r1"))
\* options.hostname is empty: _validate_hostname raises
JobBadHost    == Job("provision_host", "default-school", TRUE,
                     Opt("create", "", "", "bb", "", FALSE, "r1"))
\* options.csvCol0 is not a string: _format_csv_line raises
JobMalformed  == Job("provision_host", "default-school", TRUE,
                     Opt("create", "h2", "", "bb", "", FALSE, "<int>"))
\* the operations API does not return the operation
JobNoOp       == Job("provision_host", "default-school", FALSE,
                     Opt("create", "h2", "", "bb", "", FALSE, "r1"))
JobOtherSchool == Job("provision_host", "other-school", TRUE,
                     Opt("create", "h2", "", "bb", "", FALSE, "r1"))
JobMacct      == Job("macct_repair", "default-school", TRUE,
                     Opt("", "", "", "", "", FALSE, ""))
JobUnknown    == Job("wake_on_lan", "default-school", TRUE,
                     Opt("", "", "", "", "", FALSE, ""))

WorkerJobs == {JobCreateH2, JobCreateH3, JobDeleteH1, JobRenameH1, JobDryRun,
               JobBadHost, JobMalformed, JobNoOp, JobOtherSchool, JobMacct,
               JobUnknown}

LockJobs == {JobCreateH2, JobDeleteH1, JobMacct, JobUnknown}

File(lines) == [exists |-> TRUE, lines |-> lines]
NoFile == [exists |-> FALSE, lines |-> <<>>]

\* the master inventories a batch may start from
InitialMasters ==
    {NoFile,
     File(<< <<"# rooms">>, <<"r1", "h1", "pc", "aa", "DHCP", "1">>, <<"">> >>)}

(***************************************************************************)
(* DC worker: operations                                                   *)
(***************************************************************************)
SetOf(seq) == {seq[i] : i \in 1..Len(seq)}

Count(seq, m) == Cardinality({i \in 1..Len(seq) : seq[i] = m})

\* the locals of a worker that is between two messages
WkIdle(jobs) ==
    [pc |-> IF jobs = <<>> THEN "loop" ELSE "dispatch", jobs |-> jobs,
     all_jobs |-> <<>>, all_msg_ids |-> <<>>, deferred_msgs |-> <<>>,
     drained |-> {}, failed_jobs |-> <<>>, delta_lines |-> <<>>,
     merged_lines |-> <<>>, valid_final |-> <<>>, deleted_hosts |-> {},
     should_ack |-> FALSE, raised |-> FALSE, batch |-> FALSE,
     master0 |-> NoFile, delta0 |-> NoFile, imports |-> 0, renamed |-> FALSE,
     outcome |-> "", running |-> TRUE, since_check |-> 0, claimed |-> FALSE,
     handoff |-> {}, verify |-> <<>>, ack_errors |-> 0, signal_in_batch |-> FALSE]

\* the macct_repair messages among the deferred ones: _process_deferred
\* leaves them unACKed, "in PEL for next read cycle"
LeftForMainLoop(deferred_msgs) ==
    {m \in SetOf(deferred_msgs) : msgs[m].type = "macct_repair"}

\* the main loop moves on to the messages `jobs`: the locals of process are
\* gone; the attribute self._deleted_hosts of the processor, the running
\* flag and stuck_job_check_time stay. After the last of the messages that
\* _process_stuck_jobs claimed, run goes on to read_jobs; after the last
\* message of a read it goes back to the test of the while loop
NextMessage(w, jobs) ==
    [WkIdle(jobs) EXCEPT !.deleted_hosts = wk[w].deleted_hosts,
                         !.running = wk[w].running,
                         !.ack_errors = wk[w].ack_errors,
                         !.signal_in_batch = wk[w].signal_in_batch,
                         !.since_check = IF wk[w].claimed /\ jobs = <<>> THEN 0
                                         ELSE wk[w].since_check,
                         !.claimed = wk[w].claimed /\ jobs # <<>>,
                         !.handoff = wk[w].handoff
                                     \cup LeftForMainLoop(wk[w].deferred_msgs),
                         !.pc = IF jobs # <<>> THEN "dispatch"
                                ELSE IF wk[w].claimed THEN "read" ELSE "loop"]

\* RedisClient.ack_job / ack_batch: XACK of the ids of `acks`, one call each
Xack(acks) ==
    /\ pel' = pel \ SetOf(acks)
    /\ xacks' = [m \in DOMAIN xacks |-> xacks[m] + Count(acks, m)]

\* RedisClient.move_to_dlq: XADD of the job's fields to linbo:jobs:dlq. No
\* handler of the worker calls it
move_to_dlq(m) == Append(dlq, m)

\* APIClient.update_status of the operations in S
Report(st, S, value) == [m \in DOMAIN st |-> IF m \in S THEN value ELSE st[m]]

\* ProvisionProcessor._process_deferred: the messages it ACKs
_process_deferred(deferred_msgs) ==
    LET NotMacct(m) == msgs[m].type # "macct_repair"
    IN  SelectSeq(deferred_msgs, NotMacct)

\* ProvisionProcessor._read_delta / _read_master
_read_delta == IF deltaFile.exists THEN deltaFile.lines ELSE <<DELTA_HEADER>>
_read_master == IF masterFile.exists THEN masterFile.lines ELSE <<>>

\* a lock that is not exclusive: every request is granted
FlockGrantsShared(w) == TRUE

\* fcntl.flock(fd, LOCK_EX | LOCK_NB) succeeds
FlockGrants(w) == flock = {}

\* the message the main loop is handling
Cur(w) == Head(wk[w].jobs)

\* XADD by the LINBO API: a job message arrives on the stream
arrive ==
    /\ arrived < MaxMsgs
    /\ arrived' = arrived + 1
    /\ stream' = Append(stream, arrived + 1)
    /\ UNCHANGED <<feedVars, apiVars, dlq, idle, ops, tmpFile, result, msgs, pel, flock, masterFile, deltaFile, status, xacks, wk,
                   included, conflictFailed, committed, lastCommit>>

\* time.time() - stuck_job_check_time > 300
StuckCheckDue(w) == wk[w].since_check * TickSeconds > 300

\* MacctWorker.run: jobs = self.redis.read_jobs(), reached from the test of
\* the while loop when no stuck-job check is due, or after
\* _process_stuck_jobs; XREADGROUP with '>' delivers the entries no consumer
\* has been given yet. With no entry the read blocks and returns nothing:
\* the loop continues
read_jobs(w) ==
    /\ \/ wk[w].pc = "loop" /\ wk[w].running /\ ~StuckCheckDue(w)
       \/ wk[w].pc = "read"
    /\ wk[w].pc = "loop" => stream # <<>>
    /\ LET n == Min(Len(stream), batch_size)
           jobs == SubSeq(stream, 1, n)
       IN  /\ wk' = [wk EXCEPT ![w] = [NextMessage(w, jobs) EXCEPT !.handoff = {}]]
           /\ pel' = pel \cup SetOf(jobs)
           /\ idle' = [m \in DOMAIN idle |-> IF m \in SetOf(jobs) THEN 0 ELSE idle[m]]
           /\ stream' = SubSeq(stream, n + 1, Len(stream))
    /\ UNCHANGED <<feedVars, apiVars, dlq, ops, tmpFile, result, msgs, arrived, flock, masterFile, deltaFile, status, xacks,
                   included, conflictFailed, committed, lastCommit>>

\* a worker that allows one retry too many
RetriesExhaustedLate(attempt) == attempt > max_retries

\* attempt >= self.config.max_retries
RetriesExhausted(attempt) == attempt >= max_retries

\* JobProcessor._process_macct: the repair script is run once; a failed run
\* is reported as failed, or as retrying with attempt + 1 and a retry_job
\* call
_process_macct(w) ==
    /\ wk[w].pc = "dispatch"
    /\ msgs[Cur(w)].type = "macct_repair"
    /\ \E success \in BOOLEAN :
          LET attempt == msgs[Cur(w)].attempt
              retry == ~success /\ ~RetriesExhausted(attempt)
          IN  /\ status' = [status EXCEPT ![Cur(w)] =
                                IF success THEN "completed"
                                ELSE IF RetriesExhausted(attempt) THEN "failed"
                                ELSE "retrying"]
              /\ ops' = [ops EXCEPT ![Cur(w)] =
                            [attempt |-> IF retry THEN attempt + 1 ELSE attempt,
                             retry |-> retry \/ @.retry,
                             runs |-> @.runs + 1]]
    /\ wk' = [wk EXCEPT ![w].should_ack = TRUE, ![w].pc = "run_ack"]
    /\ UNCHANGED <<feedVars, apiVars, dlq, idle, tmpFile, result, msgs, arrived, stream, pel, flock, masterFile, deltaFile, xacks,
                   included, conflictFailed, committed, lastCommit>>

\* JobProcessor.process, unknown job type
process_unknown(w) ==
    /\ wk[w].pc = "dispatch"
    /\ msgs[Cur(w)].type \notin {"macct_repair", "provision_host"}
    /\ wk' = [wk EXCEPT ![w].should_ack = TRUE, ![w].pc = "run_ack"]
    /\ UNCHANGED <<feedVars, apiVars, dlq, idle, ops, tmpFile, result, msgs, arrived, stream, pel, flock, masterFile, deltaFile, status,
                   xacks, included, conflictFailed, committed, lastCommit>>

\* ProvisionProcessor.process up to the try: _acquire_lock succeeds, or
\* times out while another process holds the lock
_acquire_lock(w) ==
    /\ wk[w].pc = "dispatch"
    /\ msgs[Cur(w)].type = "provision_host"
    /\ included' = included \cup {Cur(w)}
    /\ IF FlockGrants(w)
       THEN /\ flock' = flock \cup {w}
            /\ wk' = [wk EXCEPT ![w].pc = "fetch", ![w].batch = TRUE,
                                ![w].master0 = masterFile,
                                ![w].delta0 = deltaFile]
            /\ UNCHANGED status
       ELSE /\ status' = Report(status, {Cur(w)}, "failed")
            /\ wk' = [wk EXCEPT ![w].should_ack = TRUE, ![w].pc = "run_ack"]
            /\ UNCHANGED flock
    /\ UNCHANGED <<feedVars, apiVars, dlq, idle, ops, tmpFile, result, msgs, arrived, stream, pel, masterFile, deltaFile, xacks,
                   conflictFailed, committed, lastCommit>>

\* an exception leaves _process_batch: the except clause of process
BatchRaises(w, st) ==
    /\ status' = Report(st, {Cur(w)}, "failed")
    /\ wk' = [wk EXCEPT ![w].should_ack = TRUE, ![w].raised = TRUE,
                        ![w].pc = "finally"]

\* _process_batch, 1: fetch and validate the trigger
batch_fetch_trigger(w) ==
    /\ wk[w].pc = "fetch"
    /\ IF ~msgs[Cur(w)].opExists
       THEN /\ wk' = [wk EXCEPT ![w].should_ack = TRUE, ![w].pc = "finally"]
            /\ UNCHANGED status
       ELSE IF ~_validate_hostname(msgs[Cur(w)].options.hostname)
       THEN /\ status' = Report(status, {Cur(w)}, "failed")
            /\ wk' = [wk EXCEPT ![w].should_ack = TRUE, ![w].pc = "finally"]
       ELSE /\ wk' = [wk EXCEPT ![w].all_jobs = <<Cur(w)>>,
                               ![w].all_msg_ids = <<Cur(w)>>,
                               ![w].pc = "drain"]
            /\ UNCHANGED status
    /\ UNCHANGED <<feedVars, apiVars, dlq, idle, ops, tmpFile, result, msgs, arrived, stream, pel, flock, masterFile, deltaFile, xacks,
                   included, conflictFailed, committed, lastCommit>>

\* _process_batch, 2-4: debounce, drain_jobs, sort the drained messages,
\* mark the collected jobs running
batch_drain(w) ==
    /\ wk[w].pc = "drain"
    /\ LET n       == Min(Len(stream), provision_batch_size)
           drained == SubSeq(stream, 1, n)
           school  == msgs[Cur(w)].school
           Same(m) == msgs[m].type = "provision_host" /\ msgs[m].school = school
           Other(m) == ~Same(m)
           NoOp(m)  == Same(m) /\ ~msgs[m].opExists
           BadHost(m) == /\ Same(m) /\ msgs[m].opExists
                         /\ ~_validate_hostname(msgs[m].options.hostname)
           Good(m)  == /\ Same(m) /\ msgs[m].opExists
                       /\ _validate_hostname(msgs[m].options.hostname)
           Single(m) == NoOp(m) \/ BadHost(m)
           good == SelectSeq(drained, Good)
       IN  /\ stream' = SubSeq(stream, n + 1, Len(stream))
           /\ pel' = (pel \cup SetOf(drained)) \ SetOf(SelectSeq(drained, Single))
           /\ idle' = [m \in DOMAIN idle |-> IF m \in SetOf(drained) THEN 0 ELSE idle[m]]
           /\ xacks' = [m \in DOMAIN xacks |->
                           xacks[m] + Count(SelectSeq(drained, Single), m)]
           /\ status' = Report(Report(status, SetOf(SelectSeq(drained, BadHost)), "failed"),
                               SetOf(wk[w].all_jobs \o good), "running")
           /\ included' = included \cup SetOf(SelectSeq(drained, Same))
           /\ wk' = [wk EXCEPT ![w].all_jobs = @ \o good,
                               ![w].all_msg_ids = @ \o good,
                               ![w].deferred_msgs = SelectSeq(drained, Other),
                               ![w].drained = SetOf(drained),
                               ![w].pc = "merge"]
    /\ UNCHANGED <<feedVars, apiVars, dlq, ops, tmpFile, result, msgs, arrived, flock, masterFile, deltaFile, conflictFailed,
                   committed, lastCommit>>

\* a batch that never takes the dry-run branch
dry_run_ignored(valid_jobs_final) == FALSE

\* _process_batch, 9: dry_run is taken from the first remaining job
dry_run(valid_jobs_final) == msgs[valid_jobs_final[1]].options.dryRun

\* _process_batch, 6: the loop applying each job to the delta lines
RECURSIVE ApplyAll(_, _, _)
ApplyAll(jobs, i, acc) ==
    IF i > Len(jobs) THEN acc
    ELSE LET o == msgs[jobs[i]].options
             raises == o.action # "delete" /\ FormatRaises(o)
         IN  ApplyAll(jobs, i + 1,
                 [delta   |-> IF raises THEN acc.delta
                              ELSE _apply_delta(acc.delta, o.action, o),
                  deleted |-> acc.deleted \cup DeletedBy(o.action, o),
                  failed  |-> IF raises THEN Append(acc.failed, jobs[i])
                              ELSE acc.failed])

\* hostnames named by the jobs of a batch
BatchHosts(jobs) ==
    UNION {{Lower(msgs[m].options.hostname), Lower(msgs[m].options.oldHostname)}
           : m \in SetOf(jobs)}

\* hostnames the jobs of a batch put into self._deleted_hosts
BatchDeletes(jobs) ==
    UNION {DeletedBy(msgs[m].options.action, msgs[m].options) : m \in SetOf(jobs)}

\* _process_batch, 5-9: read the delta, apply the jobs, read the master,
\* merge, check conflicts, dry-run
batch_merge(w) ==
    /\ wk[w].pc = "merge"
    /\ LET applied == ApplyAll(wk[w].all_jobs, 1,
                          [delta |-> _read_delta, deleted |-> wk[w].deleted_hosts,
                           failed |-> <<>>])
           Valid(m) == m \notin SetOf(applied.failed)
           valid_jobs == SelectSeq(wk[w].all_jobs, Valid)
           merged == _merge(_read_master, applied.delta, applied.deleted)
           Conflict(m) == _check_conflicts(msgs[m].options.action, msgs[m].options, merged)
           NoConflict(m) == ~Conflict(m)
           conflicts == SelectSeq(valid_jobs, Conflict)
           valid_final == SelectSeq(valid_jobs, NoConflict)
           st1 == Report(status, SetOf(applied.failed), "failed")
           st2 == Report(st1, SetOf(conflicts), "failed")
           deferred == _process_deferred(wk[w].deferred_msgs)
           w1 == [wk[w] EXCEPT !.deleted_hosts = applied.deleted]
           w2 == [w1 EXCEPT !.failed_jobs = applied.failed \o conflicts,
                            !.delta_lines = applied.delta,
                            !.merged_lines = merged,
                            !.valid_final = valid_final]
       IN  IF valid_jobs = <<>>
           THEN /\ status' = st1
                /\ Xack(applied.failed \o deferred)
                /\ wk' = [wk EXCEPT ![w] = [w1 EXCEPT !.should_ack = TRUE,
                                                      !.outcome = "no_valid",
                                                      !.pc = "finally"]]
                /\ UNCHANGED <<conflictFailed, result>>
           ELSE \/ \* _read_master raises
                   /\ masterFile.exists
                   /\ status' = Report(st1, {Cur(w)}, "failed")
                   /\ wk' = [wk EXCEPT ![w] = [w1 EXCEPT !.should_ack = TRUE,
                                                         !.raised = TRUE,
                                                         !.pc = "finally"]]
                   /\ UNCHANGED <<pel, xacks, conflictFailed, result>>
                \/ /\ conflictFailed' = conflictFailed \cup SetOf(conflicts)
                   /\ IF valid_final = <<>>
                      THEN /\ status' = st2
                           /\ Xack(wk[w].all_msg_ids \o deferred)
                           /\ wk' = [wk EXCEPT ![w] = [w2 EXCEPT !.should_ack = TRUE,
                                                                 !.outcome = "all_conflict",
                                                                 !.pc = "finally"]]
                           /\ UNCHANGED result
                      ELSE IF dry_run(valid_final)
                      THEN /\ status' = Report(st2, SetOf(valid_final), "completed")
                           /\ result' = Report(result, SetOf(valid_final),
                                               {"dryRun", "mergeStats"})
                           /\ Xack(wk[w].all_msg_ids \o deferred)
                           /\ wk' = [wk EXCEPT ![w] = [w2 EXCEPT !.should_ack = TRUE,
                                                                 !.outcome = "dry_run",
                                                                 !.pc = "finally"]]
                      ELSE /\ status' = st2
                           /\ wk' = [wk EXCEPT ![w] = [w2 EXCEPT !.pc = "write_delta"]]
                           /\ UNCHANGED <<pel, xacks, result>>
    /\ UNCHANGED <<feedVars, apiVars, dlq, idle, ops, tmpFile, msgs, arrived, stream, flock, masterFile, deltaFile,
                   included, committed, lastCommit>>

\* _process_batch, 10: _write_delta, which may raise
batch_write_delta(w) ==
    /\ wk[w].pc = "write_delta"
    /\ \/ /\ deltaFile' = File(wk[w].delta_lines)
          /\ committed' = committed \cup SetOf(wk[w].valid_final)
          /\ wk' = [wk EXCEPT ![w].pc = "write_master"]
          /\ UNCHANGED status
       \/ /\ BatchRaises(w, status)
          /\ UNCHANGED <<deltaFile, committed>>
    /\ UNCHANGED <<feedVars, apiVars, dlq, idle, ops, tmpFile, result, msgs, arrived, stream, pel, flock, masterFile,
                   xacks, included, conflictFailed, lastCommit>>

\* the except clause of step 11: the remaining jobs are marked failed, every
\* collected message is ACKed, the deferred messages are processed
WriteFails(w) ==
    /\ status' = Report(status, SetOf(wk[w].valid_final), "failed")
    /\ Xack(wk[w].all_msg_ids \o _process_deferred(wk[w].deferred_msgs))
    /\ wk' = [wk EXCEPT ![w].should_ack = TRUE, ![w].outcome = "write_failed",
                        ![w].pc = "finally"]

\* a master written in place, without the temp file
MasterWrittenInPlace(written) == File(written)

\* the file at the master path after `written` went to tmp_path, which is
\* master_path.with_suffix('.csv.tmp'): another file
MasterWhileWritingTmp(written) == masterFile

\* _process_batch, 11: the merged lines are written to the temp file; the
\* write can fail after any number of lines
batch_write_tmp(w) ==
    /\ wk[w].pc = "write_master"
    /\ \E k \in 0..Len(wk[w].merged_lines) :
          LET written == SubSeq(wk[w].merged_lines, 1, k)
          IN  /\ tmpFile' = File(written)
              /\ masterFile' = MasterWhileWritingTmp(written)
              /\ \/ /\ k = Len(wk[w].merged_lines)
                    /\ wk' = [wk EXCEPT ![w].pc = "rename"]
                    /\ UNCHANGED <<status, pel, xacks>>
                 \/ /\ k < Len(wk[w].merged_lines)
                    /\ WriteFails(w)
    /\ UNCHANGED <<feedVars, apiVars, dlq, idle, ops, result, msgs, arrived, stream, flock, deltaFile, included,
                   conflictFailed, committed, lastCommit>>

\* _process_batch, 11: backup copy and os.rename of the temp file over the
\* master; or one of them raises
batch_write_master(w) ==
    /\ wk[w].pc = "rename"
    /\ \/ /\ masterFile' = tmpFile
          /\ tmpFile' = NoFile
          /\ lastCommit' = [before |-> _read_master, after |-> tmpFile.lines,
                            hosts |-> BatchHosts(wk[w].all_jobs),
                            deletes |-> BatchDeletes(wk[w].all_jobs)]
          /\ wk' = [wk EXCEPT ![w].renamed = TRUE, ![w].pc = "import"]
          /\ UNCHANGED <<status, pel, xacks>>
       \/ /\ WriteFails(w)
          /\ UNCHANGED <<masterFile, tmpFile, lastCommit>>
    /\ UNCHANGED <<feedVars, apiVars, dlq, idle, ops, result, msgs, arrived, stream, flock, deltaFile, included,
                   conflictFailed, committed>>

\* an import tool started for every remaining job
_run_import_script_per_job(w) == wk[w].imports + Len(wk[w].valid_final)

\* _run_import_script: one subprocess.run of the import tool; the number of
\* invocations this batch has made after it
_run_import_script(w) == wk[w].imports + 1

\* _process_batch, 12: _run_import_script: the script is missing, or it is
\* run and succeeds, or it is run and fails; a failure marks the remaining
\* jobs failed and ACKs
batch_import(w) ==
    /\ wk[w].pc = "import"
    /\ \/ /\ wk' = [wk EXCEPT ![w].imports = _run_import_script(w),
                              ![w].pc = "verify"]
          /\ UNCHANGED <<status, pel, xacks>>
       \/ \E exists \in BOOLEAN :
             /\ status' = Report(status, SetOf(wk[w].valid_final), "failed")
             /\ Xack(wk[w].all_msg_ids \o _process_deferred(wk[w].deferred_msgs))
             /\ wk' = [wk EXCEPT ![w].should_ack = TRUE,
                                 ![w].imports = IF exists THEN _run_import_script(w)
                                                ELSE @,
                                 ![w].outcome = IF exists THEN "import_failed"
                                                ELSE "no_script",
                                 ![w].pc = "finally"]
    /\ UNCHANGED <<feedVars, apiVars, dlq, idle, ops, tmpFile, result, msgs, arrived, stream, flock, masterFile,
                   deltaFile, included, conflictFailed, committed, lastCommit>>

\* _process_batch, 13: verify each remaining job, mark it completed or failed
\* what _verify_results finds: _check_ad and _check_dns, each False on any
\* error of its subprocess
Probes == [ad_object_exists : BOOLEAN, dns_a_exists : BOOLEAN]

\* step 13 for one job: a delete whose first verification finds the AD object
\* or the A record runs _cleanup_deleted_host and verifies once more
VerifyJob(action, first, second) ==
    IF action = "delete" /\ (first.ad_object_exists \/ first.dns_a_exists)
    THEN [verify |-> second, cleanups |-> 1]
    ELSE [verify |-> first, cleanups |-> 0]

\* a rule that is content with one of the two for a create or update
VerifySuccessEither(action, verify) ==
    IF action = "delete"
    THEN ~verify.ad_object_exists /\ ~verify.dns_a_exists
    ELSE verify.ad_object_exists \/ verify.dns_a_exists

\* step 13, "Determine success"
VerifySuccess(action, verify) ==
    IF action = "delete"
    THEN ~verify.ad_object_exists /\ ~verify.dns_a_exists
    ELSE verify.ad_object_exists /\ verify.dns_a_exists

\* step 13 for the first n jobs of valid_jobs_final: the status reported for
\* each, and what the verification of each found
VerifiedStatus(w, n, first, second) ==
    [m \in DOMAIN status |->
        IF \E k \in 1..n : wk[w].valid_final[k] = m
        THEN IF VerifySuccess(msgs[m].options.action,
                              VerifyJob(msgs[m].options.action, first[m], second[m]).verify)
             THEN "completed" ELSE "failed"
        ELSE status[m]]

batch_verify(w) ==
    /\ wk[w].pc = "verify"
    /\ LET jobs == SetOf(wk[w].valid_final)
       IN  \E first \in [jobs -> Probes] : \E second \in [jobs -> Probes] :
             \/ /\ status' = VerifiedStatus(w, Len(wk[w].valid_final), first, second)
                /\ result' = Report(result, jobs, {"verify", "mergeStats", "importOutput"})
                /\ wk' = [wk EXCEPT ![w].pc = "ack",
                                    ![w].verify =
                                        [m \in jobs |->
                                            VerifyJob(msgs[m].options.action,
                                                      first[m], second[m])]]
             \* a subprocess of _cleanup_deleted_host raises (timeout) for job k
             \/ \E k \in 1..Len(wk[w].valid_final) :
                   LET m == wk[w].valid_final[k]
                   IN  /\ msgs[m].options.action = "delete"
                       /\ first[m].ad_object_exists \/ first[m].dns_a_exists
                       /\ BatchRaises(w, VerifiedStatus(w, k - 1, first, second))
                       /\ result' = Report(result,
                                           {wk[w].valid_final[j] : j \in 1..(k - 1)},
                                           {"verify", "mergeStats", "importOutput"})
    /\ UNCHANGED <<feedVars, apiVars, dlq, idle, ops, tmpFile, msgs, arrived, stream, pel, flock, masterFile,
                   deltaFile, xacks, included, conflictFailed, committed, lastCommit>>

\* _process_batch, 14-15: ack_batch, ack_job of the failed jobs,
\* _process_deferred; or ack_batch raises
batch_ack(w) ==
    /\ wk[w].pc = "ack"
    /\ \/ /\ Xack(wk[w].all_msg_ids \o wk[w].failed_jobs
                     \o _process_deferred(wk[w].deferred_msgs))
          /\ wk' = [wk EXCEPT ![w].should_ack = TRUE, ![w].outcome = "done",
                              ![w].pc = "finally"]
          /\ UNCHANGED status
       \/ /\ BatchRaises(w, status)
          /\ UNCHANGED <<pel, xacks>>
    /\ UNCHANGED <<feedVars, apiVars, dlq, idle, ops, tmpFile, result, msgs, arrived, stream, flock, masterFile,
                   deltaFile, included, conflictFailed, committed, lastCommit>>

\* a release that is skipped when the batch raised
_release_lock_on_return(w) == IF wk[w].raised THEN flock ELSE flock \ {w}

\* ProvisionProcessor._release_lock
_release_lock(w) == flock \ {w}

\* a clear that keeps what the batch added
_deleted_hosts_kept(deleted_hosts) == deleted_hosts

\* self._deleted_hosts.clear()
_deleted_hosts_clear(deleted_hosts) == {}

\* the finally clause of process
process_finally(w) ==
    /\ wk[w].pc = "finally"
    /\ flock' = _release_lock(w)
    /\ wk' = [wk EXCEPT ![w].deleted_hosts = _deleted_hosts_clear(@),
                        ![w].pc = "run_ack"]
    /\ UNCHANGED <<feedVars, apiVars, dlq, idle, ops, tmpFile, result, msgs, arrived, stream, pel, masterFile, deltaFile, status, xacks,
                   included, conflictFailed, committed, lastCommit>>

\* MacctWorker.run: if should_ack: ack_job(msg_id); an exception of ack_job
\* is logged and the loop goes on with the next message
run_ack(w) ==
    /\ wk[w].pc = "run_ack"
    /\ \/ /\ IF wk[w].should_ack THEN Xack(<<Cur(w)>>) ELSE UNCHANGED <<pel, xacks>>
          /\ wk' = [wk EXCEPT ![w] = NextMessage(w, Tail(wk[w].jobs))]
       \/ /\ wk[w].should_ack
          /\ wk[w].ack_errors < MaxAckErrors
          /\ UNCHANGED <<pel, xacks>>
          /\ wk' = [wk EXCEPT ![w] = [NextMessage(w, Tail(wk[w].jobs))
                                        EXCEPT !.ack_errors = @ + 1]]
    /\ UNCHANGED <<feedVars, apiVars, dlq, idle, ops, tmpFile, result, msgs, arrived, stream, flock, masterFile, deltaFile, status,
                   included, conflictFailed, committed, lastCommit>>

\* the operations API re-queues an operation whose retry was requested: a
\* message with the attempt last reported for it is added to the stream
retry_requeue(m) ==
    /\ ops[m].retry
    /\ ops' = [ops EXCEPT ![m].retry = FALSE]
    /\ msgs' = [msgs EXCEPT ![m].attempt = ops[m].attempt]
    /\ stream' = Append(stream, m)
    /\ status' = [status EXCEPT ![m] = "queued"]
    /\ UNCHANGED <<feedVars, apiVars, dlq, idle, tmpFile, result, arrived, pel, flock, masterFile,
                   deltaFile, xacks, wk, included, conflictFailed, committed,
                   lastCommit>>

\* the ticks after which an entry has been idle for min_idle_time, and the
\* ticks after which a stuck-job check is due: the counters stop there
IdleTicks == (min_idle_time + TickSeconds * 1000 - 1) \div (TickSeconds * 1000)
CheckTicks == 300 \div TickSeconds + 1

\* the clock moves on by one tick: the idle time of every pending entry and
\* the age of the worker's stuck_job_check_time grow
WorkerTick(w) ==
    /\ wk[w].pc # "stopped"
    /\ idle' = [m \in DOMAIN idle |->
                   IF m \in pel THEN Min(idle[m] + 1, IdleTicks) ELSE 0]
    /\ wk' = [wk EXCEPT ![w].since_check = Min(@ + 1, CheckTicks)]
    /\ UNCHANGED <<feedVars, apiVars, dlq, ops, tmpFile, result, msgs, arrived, stream,
                   pel, flock, masterFile, deltaFile, status, xacks, included,
                   conflictFailed, committed, lastCommit>>

\* the ids of S in the order of the stream
RECURSIVE Ascending(_)
Ascending(S) ==
    IF S = {} THEN <<>>
    ELSE LET m == CHOOSE x \in S : \A y \in S : x <= y
         IN  <<m>> \o Ascending(S \ {m})

\* a claim that takes every pending entry, however short its idle time
claim_stuck_jobs_any ==
    LET stuck == Ascending(pel)
    IN  SubSeq(stuck, 1, Min(Len(stuck), batch_size))

\* RedisClient.claim_stuck_jobs: XAUTOCLAIM from 0-0 of up to batch_size
\* pending entries whose idle time has reached min_idle_time
claim_stuck_jobs ==
    LET stuck == Ascending({m \in pel : idle[m] * TickSeconds * 1000 >= min_idle_time})
    IN  SubSeq(stuck, 1, Min(Len(stuck), batch_size))

\* MacctWorker.run, the periodic check, and _process_stuck_jobs: the claimed
\* messages are handed to the processor one after the other like the
\* messages of a read; XAUTOCLAIM resets their idle time. An error of
\* XAUTOCLAIM is logged and nothing is claimed
_process_stuck_jobs(w) ==
    /\ wk[w].pc = "loop"
    /\ wk[w].running
    /\ StuckCheckDue(w)
    /\ \E stuck \in {claim_stuck_jobs, <<>>} :
          /\ idle' = [m \in DOMAIN idle |-> IF m \in SetOf(stuck) THEN 0 ELSE idle[m]]
          /\ wk' = [wk EXCEPT ![w] =
                        IF stuck = <<>>
                        THEN [wk[w] EXCEPT !.since_check = 0, !.pc = "read"]
                        ELSE [NextMessage(w, stuck) EXCEPT !.claimed = TRUE]]
    /\ UNCHANGED <<feedVars, apiVars, dlq, ops, tmpFile, result, msgs, arrived, stream,
                   pel, flock, masterFile, deltaFile, status, xacks, included,
                   conflictFailed, committed, lastCommit>>

\* w is between a successful _acquire_lock and the matching _release_lock
InBatch(w) ==
    wk[w].pc \in {"fetch", "drain", "merge", "write_delta", "write_master", "rename",
                  "import", "verify", "ack", "finally"}

\* MacctWorker._handle_signal: SIGTERM or SIGINT arrives
_handle_signal(w) ==
    /\ wk[w].running
    /\ wk[w].pc # "stopped"
    /\ wk' = [wk EXCEPT ![w].running = FALSE, ![w].signal_in_batch = InBatch(w)]
    /\ UNCHANGED <<feedVars, apiVars, dlq, idle, ops, tmpFile, result, msgs, arrived,
                   stream, pel, flock, masterFile, deltaFile, status, xacks, included,
                   conflictFailed, committed, lastCommit>>

\* MacctWorker.run: the test of while self.running, between two iterations,
\* ends the loop, "Worker stopped"
run_exit(w) ==
    /\ wk[w].pc = "loop"
    /\ ~wk[w].running
    /\ wk' = [wk EXCEPT ![w].pc = "stopped"]
    /\ UNCHANGED <<feedVars, apiVars, dlq, idle, ops, tmpFile, result, msgs, arrived,
                   stream, pel, flock, masterFile, deltaFile, status, xacks, included,
                   conflictFailed, committed, lastCommit>>

InitWorker(jobs, masters) ==
    /\ msgs \in [1..MaxMsgs -> jobs]
    /\ arrived = 0
    /\ stream = <<>>
    /\ pel = {}
    /\ flock = {}
    /\ masterFile \in masters
    /\ deltaFile = NoFile
    /\ status = [m \in 1..MaxMsgs |-> "queued"]
    /\ xacks = [m \in 1..MaxMsgs |-> 0]
    /\ wk = [w \in Workers |-> WkIdle(<<>>)]
    /\ included = {}
    /\ conflictFailed = {}
    /\ committed = {}
    /\ lastCommit = [before |-> <<>>, after |-> <<>>, hosts |-> {}, deletes |-> {}]
    /\ tmpFile = NoFile
    /\ result = [m \in 1..MaxMsgs |-> {}]
    /\ ops = [m \in 1..MaxMsgs |-> [attempt |-> 0, retry |-> FALSE, runs |-> 0]]
    /\ dlq = <<>>
    /\ idle = [m \in 1..MaxMsgs |-> 0]

\* the steps of the main loop and of a provisioning batch
ProvisionStep(w) ==
    \/ read_jobs(w)
    \/ _acquire_lock(w)
    \/ batch_fetch_trigger(w)
    \/ batch_drain(w)
    \/ batch_merge(w)
    \/ batch_write_delta(w)
    \/ batch_write_tmp(w)
    \/ batch_write_master(w)
    \/ batch_import(w)
    \/ batch_verify(w)
    \/ batch_ack(w)
    \/ process_finally(w)
    \/ run_ack(w)

WorkerStep(w) ==
    \/ read_jobs(w)
    \/ _process_macct(w)
    \/ process_unknown(w)
    \/ _acquire_lock(w)
    \/ batch_fetch_trigger(w)
    \/ batch_drain(w)
    \/ batch_merge(w)
    \/ batch_write_delta(w)
    \/ batch_write_tmp(w)
    \/ batch_write_master(w)
    \/ batch_import(w)
    \/ batch_verify(w)
    \/ batch_ack(w)
    \/ process_finally(w)
    \/ run_ack(w)

(***************************************************************************)
(* File watcher: WatcherService and the adapters it reloads.  The watcher  *)
(* is one task; the files change under it at any time.                     *)
(***************************************************************************)
_MAX_RETRIES == 3
_COOLDOWN_S == 5

\* A path is modelled by the pieces of its file name the watcher looks at:
\* <<name>>, or <<"start.conf.", id>> for a name with that prefix.
PathDevices == <<"devices.csv">>
PathStartConf == <<"start.conf.", "win10">>
PathOther == <<"devices.csv.swp">>
PathStartConf2 == <<"start.conf.", "ubuntu">>

WatchedPaths == {PathDevices, PathStartConf, PathOther}

\* what a file event leaves on disk: a file the adapter parses, a file whose
\* read fails with OSError (the adapter returns False), a file whose bytes
\* make the read raise (UnicodeDecodeError), a path whose stat fails with an
\* OSError other than ENOENT, no file
FileStates == {"ok", "unreadable", "corrupt", "stat_error", "absent"}

\* the states the events of the model put each path in
EventStates(p) ==
    IF p = PathDevices THEN FileStates
    ELSE IF p = PathStartConf THEN {"ok", "unreadable", "corrupt"}
    ELSE {"ok"}

\* the watcher between two changes
WatcherIdle(running, outcome, recorded) ==
    [running |-> running, pc |-> "idle", path |-> <<>>, attempt |-> 0,
     load |-> "none", outcome |-> outcome, recorded |-> recorded]

\* str(p) == str(devices_path)
is_devices(p) == p = PathDevices

\* p.name.startswith("start.conf.") and not is_devices
is_startconf(p) == p[1] = "start.conf." /\ ~is_devices(p)

\* p.name.removeprefix("start.conf.")
conf_name(p) == IF p[1] = "start.conf." THEN p[2] ELSE p[1]

\* the two record_change calls that follow a reload of p
ChangesOf(p) ==
    IF is_devices(p)
    THEN << <<"host", "all", "upsert">>, <<"dhcp", "all", "upsert">> >>
    ELSE << <<"startconf", conf_name(p), "upsert">>,
            <<"config", conf_name(p), "upsert">> >>

\* a watcher that skips nothing
CooldownIgnored(p) == FALSE

\* now < self._cooldowns.get(path, 0)
InCooldown(p) == mono < cooldowns[p]

\* time.monotonic() advances
MonoTick ==
    /\ mono < MaxMono
    /\ mono' = mono + 1
    /\ UNCHANGED <<fs, events, nEvents, watcher, cooldowns, loaded, devices, configs>>
    /\ UNCHANGED <<feedVars, workerVars, httpVars>>

\* a file is written, replaced or removed and awatch will report it
file_event(p, st) ==
    /\ nEvents < MaxEvents
    /\ nEvents' = nEvents + 1
    /\ fs' = [fs EXCEPT ![p] = [state |-> st, rev |-> fs[p].rev + 1]]
    /\ events' = Append(events, [change |-> IF st = "absent" THEN "deleted"
                                           ELSE "modified",
                                 path |-> p])
    /\ UNCHANGED <<mono, watcher, cooldowns, loaded, devices, configs>>
    /\ UNCHANGED <<feedVars, workerVars, httpVars>>

\* _watch_loop takes the next change; _handle_change up to the reload
_handle_change ==
    /\ watcher.running
    /\ watcher.pc = "idle"
    /\ events # <<>>
    /\ events' = Tail(events)
    /\ LET p == Head(events).path
       IN  watcher' =
             IF Head(events).change = "deleted"
             THEN WatcherIdle(TRUE, "deleted", <<>>)
             ELSE IF InCooldown(p)
             THEN WatcherIdle(TRUE, "cooldown", <<>>)
             ELSE IF fs[p].state = "stat_error"
             THEN WatcherIdle(FALSE, "loop_error", <<>>)
             ELSE IF fs[p].state = "absent"
             THEN WatcherIdle(TRUE, "missing", <<>>)
             ELSE IF ~is_devices(p) /\ ~is_startconf(p)
             THEN WatcherIdle(TRUE, "ignored", <<>>)
             ELSE [running |-> TRUE, pc |-> "attempt", path |-> p, attempt |-> 1,
                   load |-> "none", outcome |-> "none", recorded |-> <<>>]
    /\ UNCHANGED <<mono, fs, nEvents, cooldowns, loaded, devices, configs>>
    /\ UNCHANGED <<feedVars, workerVars, httpVars>>

\* the lines of devices.csv in revision rev: the fields 1 (hostname) and 3
\* (MAC) and the number of columns
CsvLine(hostname, mac, cols) == [hostname |-> hostname, mac |-> mac, cols |-> cols]

CsvText(rev) ==
    IF rev = 0
    THEN <<CsvLine("h1", "aa-bb", 5), CsvLine("bad", "zz", 5), CsvLine("h2", "cc:dd", 4)>>
    ELSE IF rev % 2 = 1
    THEN <<CsvLine("h1", "AA:BB", 15), CsvLine("h3", "ee:ff", 5)>>
    ELSE <<CsvLine("h4", "ee:ff", 5)>>

\* _normalize_mac: upper case with colons, "invalid" for what _MAC_RE rejects
_normalize_mac(raw) ==
    CASE raw = "aa-bb" -> "AA:BB"
      [] raw = "AA:BB" -> "AA:BB"
      [] raw = "cc:dd" -> "CC:DD"
      [] raw = "ee:ff" -> "EE:FF"
      [] OTHER -> "invalid"

\* the loop of DevicesAdapter.load over the lines: rows with fewer than 5
\* columns or an invalid MAC are skipped, a later row of a MAC replaces an
\* earlier one
RECURSIVE ParseDevices(_, _)
ParseDevices(text, ts) ==
    IF text = <<>> THEN <<>>
    ELSE LET hosts == ParseDevices(SubSeq(text, 1, Len(text) - 1), ts)
             line == text[Len(text)]
             mac == _normalize_mac(line.mac)
         IN  IF line.cols < 5 \/ mac = "invalid" THEN hosts
             ELSE [m \in DOMAIN hosts \cup {mac} |->
                      IF m = mac THEN [hostname |-> line.hostname, updatedAt |-> ts]
                      ELSE hosts[m]]

\* DevicesAdapter.__init__; pc, text, result are the position, the local and
\* the outcome of a load
DevicesAdapter ==
    [hosts |-> <<>>, last_modified |-> -1, pc |-> "idle", text |-> <<>>,
     result |-> "none"]

\* self._path.read_text: FileNotFoundError and OSError end the load with
\* False, a decoding error leaves it as an exception
_read_text(d, file) ==
    IF file.state = "ok"
    THEN [d EXCEPT !.pc = "stat", !.text = CsvText(file.rev), !.result = "none"]
    ELSE [d EXCEPT !.pc = "idle", !.text = <<>>,
                   !.result = IF file.state = "corrupt" THEN "raise" ELSE "false"]

\* self._path.stat() and the assignment of _last_modified; the call is
\* outside the try block
_stat(d, file) ==
    IF file.state \in {"absent", "stat_error"}
    THEN [d EXCEPT !.pc = "idle", !.result = "raise"]
    ELSE [d EXCEPT !.pc = "swap", !.last_modified = file.rev]

\* hosts.update(...) in place of the assignment
MergeHosts(d, hosts) ==
    [d EXCEPT !.hosts = [m \in DOMAIN d.hosts \cup DOMAIN hosts |->
                            IF m \in DOMAIN hosts THEN hosts[m] ELSE d.hosts[m]]]

\* self._hosts = hosts
SwapHosts(d, hosts) == [d EXCEPT !.hosts = hosts]

\* the parse into the local dict, the assignment and return True
_swap(d) ==
    [SwapHosts(d, ParseDevices(d.text, d.last_modified)) EXCEPT
        !.pc = "idle", !.result = "true"]

\* DevicesAdapter.load with the file unchanged while it runs
load(d, file) ==
    LET d1 == _read_text(d, file)
        d2 == _stat(d1, file)
    IN  IF d1.pc = "idle" THEN d1
        ELSE IF d2.pc = "idle" THEN d2
        ELSE _swap(d2)

\* DevicesAdapter.load / StartConfAdapter.load_single on the file as it is
\* now: "true" (parsed, data replaced), "false" (read failed, data kept),
\* "raise" (an exception leaves the adapter, data kept)
LoadResult(p) ==
    IF fs[p].state = "ok" THEN "true"
    ELSE IF fs[p].state = "corrupt" THEN "raise"
    ELSE "false"

\* one pass of the retry loop: the adapter call, and on an exception the
\* sleep before the next pass or, after the last pass, the cooldown
reload_attempt ==
    /\ watcher.pc = "attempt"
    /\ LET p == watcher.path
           r == LoadResult(p)
       IN  /\ loaded' = IF r = "true" THEN [loaded EXCEPT ![p] = fs[p].rev]
                        ELSE loaded
           /\ watcher' =
                IF r # "raise"
                THEN [watcher EXCEPT !.pc = "record", !.load = r]
                ELSE IF watcher.attempt < _MAX_RETRIES
                THEN [watcher EXCEPT !.attempt = @ + 1, !.load = r]
                ELSE [WatcherIdle(TRUE, "failed", <<>>) EXCEPT
                         !.attempt = watcher.attempt, !.load = r, !.path = p]
           /\ cooldowns' =
                IF r = "raise" /\ ~(watcher.attempt < _MAX_RETRIES)
                THEN [cooldowns EXCEPT ![p] = mono + _COOLDOWN_S]
                ELSE cooldowns
           /\ devices' = IF is_devices(p) THEN load(devices, fs[p]) ELSE devices
           /\ configs' = IF is_startconf(p) /\ r = "true"
                         THEN configs \cup {conf_name(p)} ELSE configs
    /\ UNCHANGED <<mono, fs, events, nEvents>>
    /\ UNCHANGED <<feedVars, workerVars, httpVars>>

\* the next record_change call of the pass that reloaded; after the second
\* one _handle_change returns
record_reload ==
    /\ watcher.pc = "record"
    /\ LET c == ChangesOf(watcher.path)[Len(watcher.recorded) + 1]
       IN  /\ record_change(c[1], c[2], c[3])
           /\ watcher' =
                IF Len(watcher.recorded) + 1 = Len(ChangesOf(watcher.path))
                THEN [WatcherIdle(TRUE, "reloaded", Append(watcher.recorded, c))
                        EXCEPT !.load = watcher.load, !.path = watcher.path]
                ELSE [watcher EXCEPT !.recorded = Append(@, c)]
    /\ UNCHANGED <<mono, fs, events, nEvents, cooldowns, loaded, devices, configs>>
    /\ UNCHANGED <<workerVars, httpVars>>

\* DevicesAdapter.load step by step; other processes write the file between
\* its system calls, the readers of the adapter run between two loads only
load_read ==
    /\ devices.pc = "idle"
    /\ devices' = _read_text(devices, fs[PathDevices])
    /\ UNCHANGED <<mono, fs, events, nEvents, watcher, cooldowns, loaded, configs>>
    /\ UNCHANGED <<feedVars, workerVars, httpVars>>

load_stat ==
    /\ devices.pc = "stat"
    /\ devices' = _stat(devices, fs[PathDevices])
    /\ UNCHANGED <<mono, fs, events, nEvents, watcher, cooldowns, loaded, configs>>
    /\ UNCHANGED <<feedVars, workerVars, httpVars>>

load_swap ==
    /\ devices.pc = "swap"
    /\ devices' = _swap(devices)
    /\ UNCHANGED <<mono, fs, events, nEvents, watcher, cooldowns, loaded, configs>>
    /\ UNCHANGED <<feedVars, workerVars, httpVars>>

\* main.py, lifespan: both adapters have loaded the files of paths
InitWatcherOn(paths) ==
    /\ mono = 0
    /\ fs = [p \in paths |-> [state |-> "ok", rev |-> 0]]
    /\ events = <<>>
    /\ nEvents = 0
    /\ watcher = WatcherIdle(TRUE, "none", <<>>)
    /\ cooldowns = [p \in paths |-> 0]
    /\ loaded = [p \in paths |-> 0]
    /\ devices = load(DevicesAdapter, [state |-> "ok", rev |-> 0])
    /\ configs = {conf_name(p) : p \in {q \in paths : is_startconf(q)}}

InitWatcher == InitWatcherOn(WatchedPaths)

(***************************************************************************)
(* Authority API: AuthMiddleware, RateLimitMiddleware and the DHCP export. *)
(* A request passes the auth middleware, then the rate limiter, then the   *)
(* router; no step of it awaits anything but the next stage, so a request  *)
(* is one action.                                                          *)
(***************************************************************************)
_SKIP_PATHS == {"/health", "/ready"}

ExportPath == "/api/v1/linbo/dhcp/export/dnsmasq-proxy"

AllTokens == {"tokA", "tokB"}

\* addresses: one inside the allowed network, one outside, and a string
\* that ipaddress.ip_address rejects
AddrInside == "10.0.0.5"
AddrOutside == "192.168.1.9"
AddrGarbage == "unknown"

\* the parsed allowlist 10.0.0.0/16, as the addresses of the model in it
Net10 == {AddrInside}

\* An Authorization header is modelled by <<scheme and blank, rest>>; <<>> is
\* a request without the header.
NoHeader == <<>>

\* an ETag the client does not send
NoETag == <<>>

\* auth.startswith("Bearer ")
IsBearer(auth) == Len(auth) >= 1 /\ auth[1] = "Bearer "

\* auth[7:]
BearerToken(auth) == IF Len(auth) >= 2 THEN auth[2] ELSE ""

\* a proxy-trusting _get_client_ip, whatever trust_proxy says
_get_client_ip_forwarded(req) ==
    IF req.forwarded # <<>> THEN req.forwarded[1] ELSE req.client

\* AuthMiddleware._get_client_ip: forwarded.split(",")[0] when trust_proxy
\* is set and the header is there, else request.client.host
_get_client_ip(req) ==
    IF settings.trust_proxy /\ req.forwarded # <<>> THEN req.forwarded[1]
    ELSE req.client

\* an allowlist check that lets every address in
_is_allowed_any(ip_str) == TRUE

\* AuthMiddleware._is_allowed
_is_allowed(ip_str) ==
    IF settings.networks = {} THEN TRUE
    ELSE IF ip_str = "" THEN FALSE
    ELSE IF ip_str \notin {AddrInside, AddrOutside} THEN FALSE
    ELSE \E net \in settings.networks : ip_str \in net

\* AuthMiddleware.dispatch: the status it answers with, 0 when it calls the
\* next stage, and request.state.auth_token
AuthDispatch(req) ==
    IF req.path \in _SKIP_PATHS THEN [status |-> 0, auth_token |-> ""]
    ELSE IF ~IsBearer(req.authorization) THEN [status |-> 401, auth_token |-> ""]
    ELSE IF BearerToken(req.authorization) \notin settings.tokens
    THEN [status |-> 401, auth_token |-> ""]
    ELSE IF ~_is_allowed(_get_client_ip(req)) THEN [status |-> 403, auth_token |-> ""]
    ELSE [status |-> 0, auth_token |-> BearerToken(req.authorization)]

\* window[:] = [t for t in window if t > cutoff], cutoff = now - 60
Pruned(window, t) ==
    LET Recent(x) == x > t - 60 * TicksPerSecond IN SelectSeq(window, Recent)

\* a limiter that lets one request too many through
WindowFullOffByOne(window) == Len(window) > settings.rpm

\* len(window) >= self._rpm
WindowFull(window) == Len(window) >= settings.rpm

\* max(1, int(60 - (now - window[0]))), in seconds
RetryAfter(window, t) ==
    LET retry_after == (60 * TicksPerSecond - (t - window[1])) \div TicksPerSecond
    IN  IF retry_after > 1 THEN retry_after ELSE 1

\* RateLimitMiddleware.dispatch for a request the auth stage let through:
\* the status (0 when it calls the router), Retry-After and the window
RateLimitDispatch(req, token, t) ==
    IF req.path \in _SKIP_PATHS \/ token = ""
    THEN [status |-> 0, retry_after |-> 0, counted |-> FALSE, windows |-> windows]
    ELSE LET window == Pruned(windows[token], t)
         IN  IF WindowFull(window)
             THEN [status |-> 429, retry_after |-> RetryAfter(window, t),
                   counted |-> FALSE,
                   windows |-> [windows EXCEPT ![token] = window]]
             ELSE [status |-> 0, retry_after |-> 0, counted |-> TRUE,
                   windows |-> [windows EXCEPT ![token] = Append(window, t)]]

\* DhcpExportAdapter.generate_dnsmasq_proxy: the text depends on the
\* "# Generated:" stamp, which is the wall clock to the second, and on the
\* hosts the devices adapter holds
generate_dnsmasq_proxy(t) ==
    [generated |-> t \div TicksPerSecond, hosts |-> loaded[PathDevices]]

\* '"' + hashlib.md5(content.encode()).hexdigest()[:12] + '"': equal texts
\* have equal tags, and the model gives different texts different tags
ETagOf(content) == <<"md5", content.generated, content.hosts>>

\* routers/dhcp._conditional_response, for a request without
\* If-Modified-Since
_conditional_response(req, content, last_modified) ==
    IF req.if_none_match # NoETag /\ req.if_none_match = ETagOf(content)
    THEN [status |-> 304, etag |-> ETagOf(content), last_modified |-> last_modified,
          body |-> <<>>]
    ELSE [status |-> 200, etag |-> ETagOf(content), last_modified |-> last_modified,
          body |-> <<content>>]

\* the router: the export endpoint, or the health endpoints
Route(req, t) ==
    IF req.path = ExportPath
    THEN _conditional_response(req, generate_dnsmasq_proxy(t), loaded[PathDevices])
    ELSE [status |-> 200, etag |-> NoETag, last_modified |-> 0, body |-> <<>>]

\* a response of a middleware: no export headers
Refusal(code) ==
    [status |-> code, etag |-> NoETag, last_modified |-> 0, body |-> <<>>]

NoExchange ==
    [req |-> [path |-> "", authorization |-> NoHeader, client |-> "",
              forwarded |-> <<>>, if_none_match |-> NoETag],
     at |-> 0, auth |-> 0, token |-> "", status |-> 0, retry_after |-> 0,
     counted |-> FALSE, etag |-> NoETag, last_modified |-> 0, body |-> <<>>]

\* a request arrives d ticks after the one before and is answered
http_request(req, d) ==
    /\ http.n < MaxRequests
    /\ clock' = clock + d
    /\ LET t == clock + d
           a == AuthDispatch(req)
           rl == IF a.status = 0 THEN RateLimitDispatch(req, a.auth_token, t)
                 ELSE [status |-> a.status, retry_after |-> 0, counted |-> FALSE,
                       windows |-> windows]
           r == IF rl.status = 0 THEN Route(req, t) ELSE Refusal(rl.status)
       IN  /\ windows' = rl.windows
           /\ http' = [n |-> http.n + 1,
                       prev |-> http.last,
                       last |-> [req |-> req, at |-> t, auth |-> a.status,
                                 token |-> a.auth_token, status |-> r.status,
                                 retry_after |-> rl.retry_after,
                                 counted |-> rl.counted, etag |-> r.etag,
                                 last_modified |-> r.last_modified,
                                 body |-> r.body],
                       admitted |-> IF rl.counted
                                    THEN [http.admitted EXCEPT
                                            ![a.auth_token] = Append(@, t)]
                                    ELSE http.admitted]
    /\ UNCHANGED settings
    /\ UNCHANGED <<feedVars, workerVars, watcherVars>>

\* the settings of a deployment
Settings(tokens, networks, trust_proxy) ==
    [tokens |-> tokens, networks |-> networks, trust_proxy |-> trust_proxy,
     rpm |-> rate_limit_rpm]

InitHttp ==
    /\ clock = 0
    /\ settings = Settings(AllTokens, {}, FALSE)
    /\ windows = [k \in AllTokens |-> <<>>]
    /\ http = [n |-> 0, prev |-> NoExchange, last |-> NoExchange,
               admitted |-> [k \in AllTokens |-> <<>>]]

InitApi == InitWatcher /\ InitHttp

\* a request with a valid token from a peer, no proxy header
Authorized(path, token, inm) ==
    [path |-> path, authorization |-> <<"Bearer ", token>>, client |-> AddrInside,
     forwarded |-> <<>>, if_none_match |-> inm]

\* the gaps between two requests, in ticks: none, half a second, just
\* under and exactly 60 seconds
Gaps == {0, 1, 60 * TicksPerSecond - 1, 60 * TicksPerSecond}

NextRateLimit ==
    \/ \E path \in {"/health", ExportPath} : \E token \in AllTokens : \E d \in Gaps :
          /\ http.n < MaxRequests
          /\ http_request(Authorized(path, token, NoETag), d)
    \/ /\ http.last.status = 429
       /\ http_request(http.last.req, http.last.retry_after * TicksPerSecond)

\* the requests of the auth model
AuthRequests ==
    [path : {"/ready", ExportPath},
     authorization : {NoHeader, <<"Bearer ", "tokA">>, <<"Bearer ", "tokB">>,
                      <<"Basic ", "tokA">>},
     client : {AddrInside, AddrOutside},
     forwarded : {<<>>, <<AddrInside>>, <<AddrOutside, AddrInside>>, <<AddrGarbage>>},
     if_none_match : {NoETag}]

NextAuth ==
    \E req \in AuthRequests : http.n < MaxAuthRequests /\ http_request(req, 0)

NextExport ==
    \E inm \in {NoETag, http.last.etag, http.prev.etag} :
        \E d \in {0, 1, TicksPerSecond} :
            http_request(Authorized(ExportPath, "tokA", inm), d)


NextWatcher ==
    \/ MonoTick
    \/ \E p \in WatchedPaths : \E st \in EventStates(p) : file_event(p, st)
    \/ _handle_change
    \/ reload_attempt
    \/ record_reload

\* two boot configurations: start.conf.win10 is deleted or written again,
\* start.conf.ubuntu is written
ConfPaths == {PathDevices, PathStartConf, PathStartConf2}

NextConfDelete ==
    \/ \E st \in {"absent", "ok"} : file_event(PathStartConf, st)
    \/ \E st \in {"ok", "unreadable"} : file_event(PathStartConf2, st)
    \/ _handle_change
    \/ reload_attempt
    \/ record_reload

NextDevices ==
    \/ \E st \in FileStates : file_event(PathDevices, st)
    \/ load_read
    \/ load_stat
    \/ load_swap

(***************************************************************************)
(* Specifications                                                          *)
(***************************************************************************)
\* one worker process on the DC, any jobs
InitOneWorker == InitFeed /\ InitWorker(WorkerJobs, InitialMasters) /\ InitApi

NextWorker == arrive \/ WorkerStep("w1")

SpecWorker == InitOneWorker /\ [][NextWorker]_vars

\* two worker processes that share the stream, the files and the lock path
InitTwoWorkers == InitFeed /\ InitWorker(LockJobs, InitialMasters) /\ InitApi

NextLock == arrive \/ \E w \in Workers : WorkerStep(w)

SpecLock == InitTwoWorkers /\ [][NextLock]_vars

\* the authority API alone, or macct_repair jobs alone
InitFeedOnly == InitFeed /\ InitWorker({JobMacct}, {NoFile}) /\ InitApi

SpecFeed == InitFeedOnly /\ [][NextFeed]_vars

SpecRestart == InitFeedOnly /\ [][NextRestart]_vars

SpecProbe == InitFeedOnly /\ [][NextProbe]_vars

\* macct_repair jobs, one worker, and the operations API that re-queues
NextRetry ==
    \/ arrive
    \/ read_jobs("w1")
    \/ _process_macct("w1")
    \/ run_ack("w1")
    \/ \E m \in 1..MaxMsgs : retry_requeue(m)

SpecRetry == InitFeedOnly /\ [][NextRetry]_vars

\* the watcher, the files it watches and the changelog it records to
SpecWatcher == InitFeedOnly /\ [][NextWatcher]_vars

\* the API under load: requests of two configured tokens, each any time
\* after the one before, and clients that wait the Retry-After they got
SpecRateLimit == InitFeedOnly /\ [][NextRateLimit]_vars

\* the API under any allowlist and proxy setting: requests with any
\* Authorization header, from any peer, with any X-Forwarded-For
InitAuth ==
    /\ InitFeed /\ InitWorker({JobMacct}, {NoFile}) /\ InitWatcher
    /\ clock = 0
    /\ \E networks \in {{}, {Net10}} : \E trust_proxy \in BOOLEAN :
          settings = Settings({"tokA"}, networks, trust_proxy)
    /\ windows = [k \in AllTokens |-> <<>>]
    /\ http = [n |-> 0, prev |-> NoExchange, last |-> NoExchange,
               admitted |-> [k \in AllTokens |-> <<>>]]

SpecAuth == InitAuth /\ [][NextAuth]_vars

\* one worker with its clock: provisioning batches, deferred messages, the
\* periodic stuck-job check
LoopJobs == {JobCreateH2, JobMacct, JobUnknown}

InitLoop == InitFeed /\ InitWorker(LoopJobs, {NoFile}) /\ InitApi

LoopStep(w) == WorkerStep(w) \/ _process_stuck_jobs(w) \/ WorkerTick(w)

NextLoop == arrive \/ LoopStep("w1")

SpecLoop == InitLoop /\ [][NextLoop]_vars

\* macct_repair jobs, one worker with its clock and the stuck-job check. The
\* clock keeps running and the worker takes its next step; XAUTOCLAIM does not
\* fail for ever
NextStuck ==
    \/ arrive
    \/ read_jobs("w1")
    \/ _process_macct("w1")
    \/ run_ack("w1")
    \/ _process_stuck_jobs("w1")
    \/ WorkerTick("w1")

ClaimSucceeds(w) == _process_stuck_jobs(w) /\ wk'[w].claimed

FairStuck ==
    /\ InitFeedOnly
    /\ [][NextStuck]_vars
    /\ WF_vars(WorkerTick("w1"))
    /\ WF_vars(read_jobs("w1"))
    /\ WF_vars(_process_macct("w1"))
    /\ WF_vars(run_ack("w1"))
    /\ WF_vars(_process_stuck_jobs("w1"))
    /\ SF_vars(ClaimSucceeds("w1"))

\* create jobs, one worker with its clock and the stuck-job check, and the
\* signal that asks it to stop
NextShutdown ==
    \/ arrive
    \/ ProvisionStep("w1")
    \/ _process_stuck_jobs("w1")
    \/ WorkerTick("w1")
    \/ _handle_signal("w1")
    \/ run_exit("w1")

InitShutdown == InitFeed /\ InitWorker({JobCreateH2}, {NoFile}) /\ InitApi

SpecShutdown == InitShutdown /\ [][NextShutdown]_vars

\* the same create job sent twice, no master rows and no delta file
InitCreateTwice ==
    InitFeed /\ InitWorker({JobCreateH2}, {NoFile, File(<<>>)}) /\ InitApi

NextCreateTwice == arrive \/ ProvisionStep("w1")

SpecCreateTwice == InitCreateTwice /\ [][NextCreateTwice]_vars

\* a host is deleted and created again
InitRecreate ==
    InitFeed /\ InitWorker({JobDeleteH1, JobCreateH1}, InitialMasters) /\ InitApi

SpecRecreate == InitRecreate /\ [][NextCreateTwice]_vars

InitConfDelete ==
    InitFeed /\ InitWorker({JobMacct}, {NoFile}) /\ InitWatcherOn(ConfPaths) /\ InitHttp

SpecConfDelete == InitConfDelete /\ [][NextConfDelete]_vars

\* devices.csv, written by other processes, and the loads of DevicesAdapter
SpecDevices == InitFeedOnly /\ [][NextDevices]_vars

\* a client of the DHCP export that sends back the ETag it got
SpecExport == InitFeedOnly /\ [][NextExport]_vars

(***************************************************************************)
(* Claims                                                                  *)
(***************************************************************************)

\* the client's cursor still names a row of the log
ClientCursorValid ==
    /\ CursorParses(clientCursor)
    /\ _is_valid_cursor(clientCursor[1], clientCursor[2])

\* change x is still ahead of the client: the next call returns it
AheadOfClient(x) ==
    \/ ~ClientCursorValid
    \/ \E r \in changelog : r.id = x /\ RowAfter(r, clientCursor[1], clientCursor[2])

\* C1: incremental sync is at-least-once.  Whenever the client holds the
\* nextCursor of a finished get_changes call, every recorded change it has
\* not received yet is still ahead of it: the cursor is stale (the next call
\* is a full snapshot) or the change's row sorts strictly after the cursor
\* (the next call lists it).  No change is ever skipped.
C1_NoChangeSkipped ==
    (gc.pc = "idle") => \A x \in allChanges \ delivered : AheadOfClient(x)

\* the operation of message m has reached a terminal status
Terminal(m) == status[m] \in {"completed", "failed"}

\* process has returned to the main loop from a batch that held the lock
BatchReturned(w) == wk[w].pc = "run_ack" /\ wk[w].batch

\* C2: every message included in a provisioning batch (the trigger and every
\* drained provision_host job of the trigger's school) has its operation
\* completed or failed before the message is ACKed.
C2_TerminalBeforeAck ==
    \A m \in included : xacks[m] > 0 => Terminal(m)

\* C3: whenever process returns, every message the batch read (the trigger
\* and every drained message) has been ACKed or was deliberately deferred to
\* the main loop: the trigger by returning True, a drained message by being
\* put on the deferred list.  No other message is left pending.
C3_NoStrayPending ==
    \A w \in Workers :
        BatchReturned(w) =>
            /\ Cur(w) \notin pel \/ wk[w].should_ack
            /\ \A m \in wk[w].drained :
                  m \notin pel \/ m \in SetOf(wk[w].deferred_msgs)

\* C4: drained messages that are not provision_host jobs of the trigger's
\* school are deferred: the batcher never ACKs them, they stay pending.
C4_DeferredNeverAcked ==
    \A w \in Workers :
        \A m \in SetOf(wk[w].deferred_msgs) : xacks[m] = 0 /\ m \in pel

\* C5: no message id is passed to XACK more than once, counting the
\* batcher's ack_batch / ack_job calls and the main loop's ack_job.
C5_AckedOnce ==
    \A m \in DOMAIN xacks : xacks[m] <= 1

\* two different rows of `lines` carry the same MAC, case-insensitively
DuplicateMac(lines) ==
    \E i, j \in 1..Len(lines) :
        /\ i < j
        /\ IsHostRow(lines[i]) /\ Len(lines[i]) >= 4
        /\ IsHostRow(lines[j]) /\ Len(lines[j]) >= 4
        /\ Upper(lines[i][4]) = Upper(lines[j][4])

\* C6: a master that had no duplicate MAC has none after any batch that
\* writes it (every initial master of the model is free of duplicates).
C6_MasterMacUnique ==
    ~DuplicateMac(masterFile.lines)

\* `line` is a row for the host and the MAC of the job of message m
RowOfJob(line, m) ==
    /\ IsHostRow(line) /\ Len(line) >= 4
    /\ Lower(line[2]) = Lower(msgs[m].options.hostname)
    /\ Upper(line[4]) = Upper(msgs[m].options.mac)

\* C7: a job the conflict check marked failed is removed from the batch:
\* neither the master nor the delta file holds a row for its host and MAC,
\* unless a job for the same host was committed by a batch.
C7_ConflictJobLeavesNoRow ==
    \A m \in conflictFailed :
        (\E i \in 1..Len(masterFile.lines) : RowOfJob(masterFile.lines[i], m))
        \/ (\E i \in 1..Len(deltaFile.lines) : RowOfJob(deltaFile.lines[i], m))
        => \E c \in committed :
              Lower(msgs[c].options.hostname) = Lower(msgs[m].options.hostname)

\* the lines of a file that are not rows of the hosts in `hosts`
OutsideBatch(lines, hosts) ==
    LET Other(l) == ~IsHostRow(l) \/ Lower(l[2]) \notin hosts
    IN  SelectSeq(lines, Other)

\* C8: a committed batch changes only rows of hostnames named by its jobs:
\* every other row, and every comment or blank line, is the same before and
\* after the master write, in the same order.
C8_OnlyBatchRowsChange ==
    OutsideBatch(lastCommit.before, lastCommit.hosts)
        = OutsideBatch(lastCommit.after, lastCommit.hosts)

\* C9: at most one provisioning batch is in flight among the processes that
\* use the lock path, and the master and delta files change only in a step
\* of a process that holds the lock.
C9_OneBatchInFlight ==
    /\ [](\A w1, w2 \in Workers : InBatch(w1) /\ InBatch(w2) => w1 = w2)
    /\ [][ (masterFile' # masterFile \/ deltaFile' # deltaFile)
             => \E w \in flock : InBatch(w) /\ wk'[w] # wk[w] ]_vars

\* C9 witness: one process is writing the master while another process has
\* a provision_host trigger in hand and is kept out
C9_Witness ==
    \E w1, w2 \in Workers :
        /\ w1 # w2
        /\ wk[w1].pc = "write_master"
        /\ wk[w2].pc = "dispatch"
        /\ msgs[Cur(w2)].type = "provision_host"

\* C10: once acquired, the lock is released on every exit path of process:
\* a process that is not inside a batch holds no lock.
C10_LockReleased ==
    \A w \in Workers : ~InBatch(w) => w \notin flock

\* C10 witness: process has returned through its except clause, the lock is
\* free, and another process has since acquired it
C10_Witness ==
    \E w1, w2 \in Workers :
        /\ w1 # w2
        /\ BatchReturned(w1) /\ wk[w1].raised
        /\ w2 \in flock

\* C11 as stated: a batch that renamed the merged master into place has
\* invoked the import tool exactly once, every other batch not at all.
C11_ImportExactlyOnce ==
    \A w \in Workers :
        BatchReturned(w) => wk[w].imports = (IF wk[w].renamed THEN 1 ELSE 0)

\* C11, amended: a batch invokes the import tool at most once however many
\* jobs it collected, and only after the merged master was renamed into
\* place; a batch with no remaining valid job, a dry-run batch and a batch
\* whose master write failed invoke nothing; a batch that renamed the master
\* invokes it exactly once unless the import script does not exist, in which
\* case nothing is invoked and the remaining jobs are marked failed.
C11_ImportOncePerBatch ==
    \A w \in Workers :
        /\ wk[w].imports <= 1
        /\ wk[w].imports = 1 => wk[w].renamed
        /\ wk[w].outcome \in {"no_valid", "all_conflict", "dry_run", "write_failed"}
              => wk[w].imports = 0
        /\ BatchReturned(w) /\ wk[w].renamed
              => IF wk[w].outcome = "no_script"
                 THEN /\ wk[w].imports = 0
                      /\ \A m \in SetOf(wk[w].valid_final) : status[m] = "failed"
                 ELSE wk[w].imports = 1

\* C11 witness: a batch of two remaining jobs has returned after one import
C11_Witness ==
    \E w \in Workers :
        /\ BatchReturned(w)
        /\ Len(wk[w].valid_final) = 2
        /\ wk[w].imports = 1
        /\ wk[w].outcome = "done"

\* C12: at every instant of a batch the file at the master path holds the
\* complete content it had when the batch began or, once the temp file was
\* renamed over it, the complete merged content; never a part of either.
C12_MasterNeverPartial ==
    \A w \in Workers :
        InBatch(w) =>
            masterFile = (IF wk[w].renamed THEN File(wk[w].merged_lines)
                          ELSE wk[w].master0)

\* C12 witness: the write of the temp file failed part-way and the master
\* still holds its earlier content
C12_Witness ==
    \E w \in Workers :
        /\ wk[w].pc = "finally"
        /\ wk[w].outcome = "write_failed"
        /\ tmpFile.exists
        /\ 0 < Len(tmpFile.lines)
        /\ Len(tmpFile.lines) < Len(wk[w].merged_lines)
        /\ masterFile.exists

C14_WriteFailureLeavesState ==
    \A w \in Workers :
        (BatchReturned(w) /\ wk[w].outcome = "write_failed")
        => /\ \A m \in SetOf(wk[w].valid_final) : status[m] = "failed"
           /\ \A m \in SetOf(wk[w].all_msg_ids) : m \notin pel
           /\ wk[w].imports = 0
           /\ masterFile = wk[w].master0
           /\ deltaFile = wk[w].delta0

\* a row of `lines` for the host of `line`
HasRowOf(lines, line) ==
    \E j \in 1..Len(lines) :
        IsHostRow(lines[j]) /\ Lower(lines[j][2]) = Lower(line[2])

\* C15: self._deleted_hosts is empty whenever a batch begins, so the merge
\* of a batch omits a master row only for a host that a job of that same
\* batch deletes or renames.
C15_DeletedHostsCleared ==
    /\ \A w \in Workers :
          wk[w].pc \in {"loop", "dispatch", "fetch", "drain", "merge", "run_ack"}
              => wk[w].deleted_hosts = {}
    /\ \A i \in 1..Len(lastCommit.before) :
          IsHostRow(lastCommit.before[i])
              => \/ Lower(lastCommit.before[i][2]) \in lastCommit.deletes
                 \/ HasRowOf(lastCommit.after, lastCommit.before[i])

\* C15 witness: a batch that deleted h1 failed, and a later batch wrote a
\* master that still has the row of h1
C15_Witness ==
    /\ \E m \in DOMAIN msgs :
          /\ msgs[m].options.action = "delete"
          /\ msgs[m].options.hostname = "h1"
          /\ status[m] = "failed"
    /\ "h1" \notin lastCommit.deletes
    /\ \E j \in 1..Len(lastCommit.after) :
          IsHostRow(lastCommit.after[j]) /\ Lower(lastCommit.after[j][2]) = "h1"

\* C16: every row ever stored in the changelog has its own (cursor_ts,
\* cursor_seq) pair, whatever record_change calls, synthetic snapshot rows,
\* compactions and restarts there were.
C16_CursorPairUnique ==
    \A a, b \in everStored :
        a.id # b.id => <<a.cursor_ts, a.cursor_seq>> # <<b.cursor_ts, b.cursor_seq>>

\* the largest cursor_seq in the table T, 0 when it is empty
MaxSeq(T) ==
    IF T = {} THEN 0
    ELSE (CHOOSE r \in T : \A o \in T : o.cursor_seq <= r.cursor_seq).cursor_seq

\* (cursor_ts, cursor_seq) of a sorts strictly before that of b
CursorBefore(a, b) ==
    \/ a.cursor_ts < b.cursor_ts
    \/ a.cursor_ts = b.cursor_ts /\ a.cursor_seq < b.cursor_seq

\* C17: cursor_seq is monotonic and survives restart: a start sets the
\* in-memory sequence to the largest cursor_seq in storage, no stored entry
\* has a cursor_seq above the in-memory sequence (so every later entry gets
\* a strictly greater one), and the stored entries sorted by (cursor_ts,
\* cursor_seq) are in insertion order.
C17_SequenceSurvivesRestart ==
    /\ [](\A r \in changelog : r.cursor_seq <= sequence)
    /\ [](\A a, b \in changelog : a.id < b.id => CursorBefore(a, b))
    /\ [][boot'.n > boot.n => sequence' = MaxSeq(changelog')]_vars

\* C17 witness: after a restart on a log that held entries, an entry was
\* recorded with a cursor_seq above the restored sequence
C17_Witness ==
    /\ boot.n = 1
    /\ boot.seq >= 1
    /\ \E r \in changelog : r.cursor_seq <= boot.seq
    /\ \E r \in changelog : r.cursor_seq > boot.seq

\* C18: get_changes never fails on its cursor: a call whose cursor is empty,
\* malformed, or well-formed but not in the log returns the full snapshot:
\* the provider's MACs and ids, dhcpChanged true, empty deletion lists.
C18_SnapshotFallback ==
    /\ resp.error = ""
    /\ (/\ resp.nextCursor # EmptyCursor
        /\ \/ resp.since = EmptyCursor
           \/ ~CursorParses(resp.since)
           \/ resp.since \in FabricatedCursors)
       => resp = SnapshotResponse(resp.since, resp.nextCursor)

\* C19: the nextCursor of every response names a row of the log for as long
\* as no compaction deletes rows, and a call that passes it back before any
\* compaction is answered incrementally, not by a full snapshot.
C19_NextCursorValid ==
    /\ (resp.nextCursor # EmptyCursor /\ ~compacted)
          => _is_valid_cursor(resp.nextCursor[1], resp.nextCursor[2])
    /\ (gc.pc = "stale" /\ gc.since = resp.nextCursor) => compacted

\* C19 witness: the log was empty, the response carried the cursor of the
\* synthetic row, and the call that passes it back found it valid
C19_Witness ==
    /\ gc.pc = "valid"
    /\ gc.since = resp.nextCursor
    /\ ~compacted
    /\ \E r \in changelog :
          /\ r.entity_type = "_synthetic"
          /\ _make_cursor(r.cursor_ts, r.cursor_seq) = gc.since

\* C20: in every response to a cursor the service returned, deletedHosts
\* shares no id with hostsChanged and deletedStartConfs shares none with
\* startConfsChanged.
C20_DeletedDisjoint ==
    /\ SetOf(resp.deletedHosts) \cap SetOf(resp.hostsChanged) = {}
    /\ SetOf(resp.deletedStartConfs) \cap SetOf(resp.startConfsChanged) = {}

\* the rows now stored have distinct cursor pairs: no INSERT of the model
\* would have been rejected by UNIQUE(cursor_ts, cursor_seq)
StoredPairsDistinct ==
    \A a, b \in changelog :
        a.id # b.id => <<a.cursor_ts, a.cursor_seq>> # <<b.cursor_ts, b.cursor_seq>>

\* the entity ids of the rows of `rows` whose type is t and whose action is
\* a deletion (deleted) or not, in the order of the rows
RECURSIVE Routed(_, _, _)
Routed(rows, t, deleted) ==
    IF rows = <<>> THEN <<>>
    ELSE (IF Head(rows).entity_type = t /\ ((Head(rows).action = "delete") = deleted)
          THEN <<Head(rows).entity_id>> ELSE <<>>)
         \o Routed(Tail(rows), t, deleted)

C22_RecordOnlyOnSuccess ==
    /\ [][changelog' # changelog => watcher.load = "true"]_vars
    /\ [][\A p \in WatchedPaths :
            loaded'[p] # loaded[p] => fs[p].state = "ok" /\ loaded'[p] = fs[p].rev]_vars
    /\ [](watcher.outcome = "failed" => watcher.recorded = <<>>)
    /\ []((watcher.outcome = "reloaded" /\ watcher.path = PathDevices) =>
            watcher.recorded = << <<"host", "all", "upsert">>,
                                  <<"dhcp", "all", "upsert">> >>)
    /\ []((watcher.outcome = "reloaded" /\ watcher.path = PathStartConf) =>
            watcher.recorded = << <<"startconf", "win10", "upsert">>,
                                  <<"config", "win10", "upsert">> >>)

\* C23: after _MAX_RETRIES consecutive failed reload attempts for a path the
\* watcher arms a cooldown of _COOLDOWN_S seconds for that path alone; a
\* change of that path handled before the cooldown expires triggers no
\* reload attempt and no changelog entry; changes of other paths, and of
\* that path after the expiry, are reloaded.
C23_Cooldown ==
    /\ [][(watcher.pc = "attempt" /\ watcher'.outcome = "failed") =>
            /\ watcher.attempt = 3
            /\ cooldowns'[watcher.path] = mono + 5
            /\ \A q \in WatchedPaths \ {watcher.path} : cooldowns'[q] = cooldowns[q]]_vars
    /\ [][cooldowns' # cooldowns => watcher'.outcome = "failed"]_vars
    /\ [][(/\ watcher.pc = "idle" /\ events # <<>> /\ events' = Tail(events)
           /\ Head(events).change = "modified") =>
            IF mono < cooldowns[Head(events).path]
            THEN /\ watcher'.pc = "idle"
                 /\ changelog' = changelog
                 /\ loaded' = loaded
            ELSE (/\ fs[Head(events).path].state \in {"ok", "unreadable", "corrupt"}
                  /\ Head(events).path \in {PathDevices, PathStartConf})
                 => /\ watcher'.pc = "attempt"
                    /\ watcher'.path = Head(events).path]_vars

\* C23 witness: a change of the inventory file is skipped while the cooldown
\* that three failed attempts armed is running
C23_Witness ==
    /\ watcher.outcome = "cooldown"
    /\ mono < cooldowns[PathDevices]
    /\ cooldowns[PathStartConf] = 0
    /\ changelog = {}

\* C24: the watcher loop survives errors: after an exception was raised
\* while a change was handled, the watcher task is still running and takes
\* the changes that arrive afterwards.
C24_LoopSurvives ==
    watcher.outcome = "loop_error" => watcher.running

\* C25: for each token the rate limiter admits at most `limit` requests to
\* non-exempt paths within any 60-second sliding window; a request that
\* arrives when `limit` admitted requests lie within the last 60 seconds gets
\* 429 and is not added to the window; requests to /health and /ready are
\* never limited and never counted.
C25_AtMostLimitPerWindow ==
    /\ [](\A k \in AllTokens : \A i \in 1..Len(http.admitted[k]) :
            Cardinality({j \in 1..Len(http.admitted[k]) :
                            /\ http.admitted[k][j] > http.admitted[k][i] - 60 * TicksPerSecond
                            /\ http.admitted[k][j] <= http.admitted[k][i]})
              <= rate_limit_rpm)
    /\ [][\A k \in AllTokens :
            LET recent == {j \in 1..Len(http.admitted[k]) :
                              http.admitted[k][j] > clock' - 60 * TicksPerSecond}
            IN  (http'.n > http.n /\ http'.last.token = k
                 /\ http'.last.req.path \notin {"/health", "/ready"})
                => IF Cardinality(recent) >= rate_limit_rpm
                   THEN /\ http'.last.status = 429
                        /\ http'.admitted = http.admitted
                        /\ SetOf(windows'[k]) \subseteq SetOf(windows[k])
                        /\ Len(windows'[k]) <= Len(windows[k])
                   ELSE /\ http'.last.status # 429
                        /\ Len(http'.admitted[k]) = Len(http.admitted[k]) + 1]_vars
    /\ [][(http'.n > http.n /\ http'.last.req.path \in {"/health", "/ready"}) =>
            /\ http'.last.status = 200
            /\ windows' = windows
            /\ http'.admitted = http.admitted]_vars

\* C25 witness: a token that used up its limit is refused while a health
\* request of the same token, sent before at the same instant, was answered
C25_Witness ==
    /\ http.last.status = 429
    /\ http.prev.status = 200
    /\ http.prev.req.path = "/health"
    /\ http.prev.at = http.last.at
    /\ http.prev.req.authorization = http.last.req.authorization
    /\ Len(windows[http.last.req.authorization[2]]) = rate_limit_rpm

\* C26: a 429 response carries Retry-After = ceil(60 - (now - oldest)),
\* oldest being the earliest timestamp still in the token's window, so that
\* a request the token sends Retry-After seconds after the rejection is
\* admitted.
C26_RetryAfterAdmits ==
    /\ http.last.status = 429 =>
          LET oldest == windows[http.last.req.authorization[2]][1]
              left == 60 * TicksPerSecond - (http.last.at - oldest)
          IN  http.last.retry_after = (left + TicksPerSecond - 1) \div TicksPerSecond
    /\ (/\ http.prev.status = 429
        /\ http.last.req = http.prev.req
        /\ http.last.at = http.prev.at + http.prev.retry_after * TicksPerSecond)
       => http.last.status # 429

\* the request carries "Bearer " and a configured token
ValidToken(req) ==
    \E k \in settings.tokens : req.authorization = <<"Bearer ", k>>

\* the address the allowlist is applied to
ClientAddress(req) ==
    IF settings.trust_proxy /\ req.forwarded # <<>> THEN Head(req.forwarded)
    ELSE req.client

\* C27: a request to a non-exempt path reaches the router (and the rate
\* limiter's counting) only if its Authorization header is "Bearer " and a
\* configured token and, when the allowlist is non-empty, its client address
\* lies in an allowed network; a missing or unknown token yields 401
\* whatever the address, a valid token from a disallowed address 403.
C27_AuthGuardsRouter ==
    (http.n > 0 /\ http.last.req.path \notin {"/health", "/ready"}) =>
        LET req == http.last.req
            allowed == settings.networks = {}
                       \/ \E net \in settings.networks : ClientAddress(req) \in net
        IN  /\ ~ValidToken(req) => http.last.status = 401
            /\ (ValidToken(req) /\ ~allowed) => http.last.status = 403
            /\ (http.last.status \notin {401, 403} \/ http.last.counted)
                  => (ValidToken(req) /\ allowed)
            /\ http.last.status \in {401, 403} => ~http.last.counted

\* C27 witness: a configured token, an allowlist, a proxy that is trusted;
\* the peer is inside the allowed network, the forwarded client is not: 403
C27_Witness ==
    /\ http.last.status = 403
    /\ settings.trust_proxy
    /\ http.last.req.authorization = <<"Bearer ", "tokA">>
    /\ http.last.req.client = AddrInside
    /\ http.last.req.forwarded = <<AddrOutside, AddrInside>>

\* C28: with trust_proxy disabled the auth decision does not depend on
\* X-Forwarded-For: two requests that differ in that header alone get the
\* same outcome, the one the direct peer address decides.
C28_ForwardedIgnored ==
    (/\ ~settings.trust_proxy
     /\ http.n = 2
     /\ [http.prev.req EXCEPT !.forwarded = <<>>]
            = [http.last.req EXCEPT !.forwarded = <<>>])
    => /\ http.prev.auth = http.last.auth
       /\ http.prev.status = http.last.status
       /\ http.prev.token = http.last.token

\* C28 witness: an allowlist, no trusted proxy, a configured token sent
\* twice from a peer outside the allowlist, once with a forwarded address
\* inside it and once without the header: refused both times
C28_Witness ==
    /\ ~settings.trust_proxy
    /\ settings.networks # {}
    /\ http.n = 2
    /\ http.prev.req = [http.last.req EXCEPT !.forwarded = <<AddrInside>>]
    /\ http.last.req.forwarded = <<>>
    /\ http.last.req.client = AddrOutside
    /\ http.last.req.authorization = <<"Bearer ", "tokA">>
    /\ http.prev.status = 403
    /\ http.last.status = 403

\* C29: while the inventory is unchanged, a DHCP export request whose
\* If-None-Match is the ETag an earlier export response returned gets 304
\* with no body and the same ETag and Last-Modified headers, however much
\* time passed between the two requests.
C29_NotModified ==
    (http.last.req.path = ExportPath /\ http.last.req.if_none_match # NoETag
     /\ http.last.status \in {200, 304})
    => /\ http.last.status = 304
       /\ http.last.body = <<>>
       /\ http.last.etag = http.last.req.if_none_match
       /\ http.last.last_modified = http.prev.last_modified

\* C30: a macct_repair job whose repair run fails is marked retrying with
\* attempt + 1 and a retry is requested if attempt < max_retries (3),
\* otherwise it is marked failed; the message is ACKed in both cases; so a
\* job delivered with attempts 0, 1, 2, ... is run at most max_retries + 1
\* times before it is permanently failed, and not again after that.
C30_MacctRetry ==
    /\ [](\A m \in 1..MaxMsgs : ops[m].runs <= 3 + 1)
    /\ [](\A m \in 1..MaxMsgs : status[m] = "failed" => ops[m].runs = 3 + 1)
    /\ [][\A m \in 1..MaxMsgs :
            (ops'[m].runs > ops[m].runs /\ status'[m] # "completed") =>
               /\ wk'["w1"].pc = "run_ack" /\ wk'["w1"].should_ack
               /\ Head(wk'["w1"].jobs) = m
               /\ IF msgs[m].attempt < 3
                  THEN /\ status'[m] = "retrying"
                       /\ ops'[m].attempt = msgs[m].attempt + 1
                       /\ ops'[m].retry
                  ELSE /\ status'[m] = "failed"
                       /\ ~ops'[m].retry]_vars
    /\ [][\A m \in 1..MaxMsgs :
            status[m] = "failed" => (ops'[m].runs = ops[m].runs /\ status'[m] = "failed")]_vars

\* C30 witness: an operation failed for good after its fourth run, each of
\* its four messages ACKed
C30_Witness ==
    \E m \in 1..MaxMsgs :
        /\ status[m] = "failed"
        /\ ops[m].runs = max_retries + 1
        /\ msgs[m].attempt = max_retries
        /\ xacks[m] = max_retries + 1
        /\ m \notin pel

\* C31: a macct_repair job that failed for good (attempt >= max_retries) is
\* on the dead-letter stream by the time its message has been ACKed
C31_DeadLetterBeforeAck ==
    \A m \in 1..MaxMsgs :
        (/\ msgs[m].type = "macct_repair"
         /\ RetriesExhausted(msgs[m].attempt)
         /\ status[m] = "failed"
         /\ m \notin pel) => m \in SetOf(dlq)

\* a step in which the main loop of worker w reads the stream
MainLoopRead(w) ==
    \/ wk[w].pc = "read" /\ wk'[w].pc # "read"
    \/ wk[w].pc = "loop" /\ wk'[w].pc = "dispatch" /\ ~wk'[w].claimed

\* C32: a macct_repair message that a provisioning batch deferred and left
\* pending is among the messages the main loop's next read returns
C32_DeferredReadNext ==
    [][\A w \in Workers :
          MainLoopRead(w) => (wk[w].handoff \cap pel) \subseteq SetOf(wk'[w].jobs)]_vars

RowsOf(lines, host) ==
    {i \in 1..Len(lines) : IsHostRow(lines[i]) /\ Lower(lines[i][2]) = host}

\* C34: with the same create job sent twice, a master written by a batch has
\* exactly one row for the host, and a batch that finds the row in the master
\* writes the master it read
C34_CreateTwice ==
    /\ lastCommit.after # <<>> => Cardinality(RowsOf(lastCommit.after, "h2")) = 1
    /\ RowsOf(lastCommit.before, "h2") # {} => lastCommit.after = lastCommit.before

\* the second batch has written the master the first one left
C34_Witness ==
    /\ RowsOf(lastCommit.before, "h2") # {}
    /\ masterFile = File(lastCommit.after)
    /\ committed = {1, 2}

C37_DeletedIdDropped ==
    [][/\ (watcher.pc = "idle" /\ events # <<>> /\ events' = Tail(events)
           /\ Head(events).change = "deleted") =>
              (watcher'.pc = "idle" /\ changelog' = changelog /\ configs' = configs)
       /\ (/\ watcher.pc = "attempt"
           /\ watcher'.pc = "record"
           /\ watcher'.load = "true"
           /\ fs[PathStartConf].state = "absent") =>
              conf_name(PathStartConf) \notin configs']_vars

\* C38: the main loop ends only between two batches, with the lock released,
\* and after a signal that arrived during a batch it starts no read
C38_CooperativeShutdown ==
    [][\A w \in Workers :
          /\ (wk'[w].pc = "stopped" /\ wk[w].pc # "stopped") =>
                (wk[w].pc = "loop" /\ w \notin flock /\ ~wk[w].batch)
          /\ (MainLoopRead(w) /\ wk[w].signal_in_batch) => wk[w].running]_vars

\* C39: the master a batch writes has, for every create or update job that
\* is in the batch at the write and that no later job of the batch deletes
\* or renames away, exactly one row of the job's hostname, with the job's MAC
C39_OneRowPerJob ==
    [][\A w \in Workers :
          (wk[w].pc = "rename" /\ wk'[w].pc = "import") =>
             \A k \in 1..Len(wk[w].valid_final) :
                LET o == msgs[wk[w].valid_final[k]].options
                    later == UNION {DeletedBy(msgs[wk[w].valid_final[j]].options.action,
                                              msgs[wk[w].valid_final[j]].options)
                                    : j \in (k + 1)..Len(wk[w].valid_final)}
                    rows == RowsOf(masterFile'.lines, Lower(o.hostname))
                IN  (o.action \in {"create", "update"} /\ Lower(o.hostname) \notin later) =>
                       /\ Cardinality(rows) = 1
                       /\ \A i \in rows : masterFile'.lines[i][4] = Upper(o.mac)]_vars

\* C40: an operation of a batch that the worker has reported completed is
\* not reported failed or running in a later step of the same batch
C40_TerminalFinal ==
    [][\A w \in Workers : \A m \in SetOf(wk[w].all_msg_ids) :
          (InBatch(w) /\ status[m] = "completed") =>
              status'[m] \notin {"failed", "running"}]_vars

====
